---- MODULE Spec2Model ----
(***************************************************************************)
(* A model of lox-rs: the lexical environment (interpreter/environment.rs),*)
(* the tree-walking evaluator (interpreter/interpreter.rs), the entry      *)
(* point Lox::run (lib.rs), the scanner (lex/scanner.rs), the parser       *)
(* (parse/parser.rs), the resolver (analysis/resolver.rs) and the command  *)
(* line program (main.rs).                                                 *)
(*                                                                         *)
(* Eight specifications share the module:                                  *)
(*   SpecEnv     the Environment API driven by arbitrary calls             *)
(*   Spec        Lox::run on a program, one top-level statement per step   *)
(*   SpecScan    Scanner as an iterator over a source text                 *)
(*   SpecParse   Parser::parse on the tokens of a source text, one         *)
(*               declaration per step                                      *)
(*   SpecResolve Resolver::resolve_stmt on the statements of a program     *)
(*   SpecEval    Interpreter::expression on one binary or logical          *)
(*               expression                                                *)
(*   SpecMain    main.rs on a file or on the lines of an interactive       *)
(*               session, one call of Lox::run per step                    *)
(*   SpecRuns    a host that calls Lox::run on one Lox value repeatedly    *)
(***************************************************************************)
EXTENDS Integers, Sequences, FiniteSets, TLC

VARIABLES
    env,        \* SpecEnv: the Environment value under test
    lastOp,     \* SpecEnv: the last API call, its arguments, result and the env before it
    lox,        \* Spec: the state of one Lox::run call
    sc,         \* SpecScan: the Scanner struct
    emitted,    \* SpecScan: what every call of next() returned so far
    parser,     \* SpecParse: the Parser, the statements and the result of parse()
    resolver,   \* SpecResolve: the Resolver, the bindings it recorded, its results
    evaluation, \* SpecEval: an expression, the interpreter and the value or error
    session     \* SpecMain, SpecRuns: the caller of Lox::run, its input and its Lox value

vars == <<env, lastOp, lox, sc, emitted, parser, resolver, evaluation, session>>

(***************************************************************************)
(* Bounds                                                                  *)
(***************************************************************************)
MaxDepth == 2       \* local frames SpecEnv pushes on top of the global frame

Names == {"a", "b"}
Vals == {[t |-> "Number", n |-> 1], [t |-> "Number", n |-> 2]}

(***************************************************************************)
(* Results: Rust's Result<T, RuntimeError>                                 *)
(***************************************************************************)
Ok(v) == [ok |-> TRUE, val |-> v]
Err(e) == [ok |-> FALSE, err |-> e]
Unit == [t |-> "Unit"]
\* The ? operator: the error of r, or what Rest makes of the Ok result r
Try(r, Rest(_)) == IF r.ok THEN Rest(r) ELSE r
\* `let v = ...;` followed by Rest
With(v, Rest(_)) == Rest(v)

ParkedEnv == [frames |-> << >>, cur |-> 0]
ParkedOp == [op |-> "parked"]

RECURSIVE SeqsUpTo(_, _)
SeqsUpTo(S, n) ==
    IF n = 0 THEN {<< >>}
    ELSE LET shorter == SeqsUpTo(S, n - 1)
         IN  shorter \cup {Append(q, c) : q \in shorter, c \in S}

\* RuntimeError::unbound_var
unbound_var(name) == [kind |-> "UnboundVar", name |-> name]
\* RuntimeError::assigning_global
assigning_global(name) == [kind |-> "AssigningGlobal", name |-> name]
\* RuntimeError::DefiningGlobal
DefiningGlobal(name) == [kind |-> "DefiningGlobal", name |-> name]

(***************************************************************************)
(* Environment.  An Environment value is a heap of frames and the id of    *)
(* the frame `self` is.  A Local frame owns its enclosing frame (Box); the *)
(* Global frame is behind an Rc, so several chains can end in it.          *)
(*   frames : id -> [kind, enclosing, values]   (enclosing = 0: none)      *)
(*   cur    : the id of the current frame                                  *)
(***************************************************************************)
EmptyMap == [n \in {} |-> Unit]

insert(map, name, value) ==
    [n \in (DOMAIN map) \cup {name} |-> IF n = name THEN value ELSE map[n]]

GlobalFrame(values) == [kind |-> "Global", enclosing |-> 0, values |-> values]
LocalFrame(enclosing) == [kind |-> "Local", enclosing |-> enclosing, values |-> EmptyMap]

NewId(frames) ==
    CHOOSE i \in 1..(Cardinality(DOMAIN frames) + 1) :
        /\ i \notin DOMAIN frames
        /\ \A j \in 1..(i - 1) : j \in DOMAIN frames

Alloc(frames, id, frame) ==
    [i \in (DOMAIN frames) \cup {id} |-> IF i = id THEN frame ELSE frames[i]]

Free(frames, id) == [i \in (DOMAIN frames) \ {id} |-> frames[i]]

IsGlobal(e) == e.frames[e.cur].kind = "Global"

\* Environment::local: a new Local frame that owns `enclosing`
local(e) ==
    LET id == NewId(e.frames)
    IN  [frames |-> Alloc(e.frames, id, LocalFrame(e.cur)), cur |-> id]

\* A variant of push that forgets to move the old environment into the new
\* frame: the frame is built on the placeholder left by mem::replace.
push_on_dummy(e) ==
    LET d == NewId(e.frames)
        f1 == Alloc(e.frames, d, GlobalFrame(EmptyMap))
        id == NewId(f1)
    IN  [frames |-> Alloc(f1, id, LocalFrame(d)), cur |-> id]

\* Environment::push: *self = Environment::local(old self)
push(e) == local(e)

\* Environment::pop: *self = *local.enclosing; a Global environment panics
CanPop(e) == ~IsGlobal(e)
pop(e) ==
    [frames |-> Free(e.frames, e.cur), cur |-> e.frames[e.cur].enclosing]

\* Environment::with_globals
with_globals(values) ==
    push([frames |-> Alloc(<< >>, 1, GlobalFrame(values)), cur |-> 1])

RECURSIVE GlobalOf(_, _)
GlobalOf(frames, id) ==
    IF frames[id].kind = "Global" THEN id ELSE GlobalOf(frames, frames[id].enclosing)

\* Environment::globals: a fresh Local frame on the shared Global frame
globals(e) ==
    push([frames |-> e.frames, cur |-> GlobalOf(e.frames, e.cur)])

\* A variant of define that writes where assign would: into the nearest
\* frame that already holds the name.
RECURSIVE HolderOf(_, _, _)
HolderOf(frames, id, name) ==
    IF name \in DOMAIN frames[id].values THEN id
    ELSE IF frames[id].kind = "Global" THEN 0
    ELSE HolderOf(frames, frames[id].enclosing, name)

define_nearest(e, name, value) ==
    IF IsGlobal(e) THEN [env |-> e, res |-> Err(DefiningGlobal(name))]
    ELSE LET h == HolderOf(e.frames, e.cur, name)
             at == IF h = 0 \/ e.frames[h].kind = "Global" THEN e.cur ELSE h
         IN  [env |-> [e EXCEPT !.frames[at].values = insert(@, name, value)],
              res |-> Ok(Unit)]

\* Environment::define
define(e, name, value) ==
    IF IsGlobal(e) THEN [env |-> e, res |-> Err(DefiningGlobal(name))]
    ELSE [env |-> [e EXCEPT !.frames[e.cur].values = insert(@, name, value)],
          res |-> Ok(Unit)]

\* A variant of get that looks at the current frame and the global frame only.
RECURSIVE get_at(_, _, _)
get_skipping(frames, id, name) ==
    IF name \in DOMAIN frames[id].values THEN Ok(frames[id].values[name])
    ELSE IF frames[id].kind = "Global" THEN Err(unbound_var(name))
    ELSE LET g == GlobalOf(frames, id)
         IN  IF name \in DOMAIN frames[g].values THEN Ok(frames[g].values[name])
             ELSE Err(unbound_var(name))

\* Environment::get, on the frame `id`
get_at(frames, id, name) ==
    IF frames[id].kind = "Global"
    THEN IF name \in DOMAIN frames[id].values
         THEN Ok(frames[id].values[name])
         ELSE Err(unbound_var(name))
    ELSE IF name \in DOMAIN frames[id].values
         THEN Ok(frames[id].values[name])
         ELSE get_at(frames, frames[id].enclosing, name)

get(e, name) == get_at(e.frames, e.cur, name)

\* A variant of assign that inserts into the current frame when the current
\* frame does not hold the name (assignment creating a binding).
RECURSIVE assign_at(_, _, _, _)
assign_creating(frames, id, name, value) ==
    IF frames[id].kind = "Global"
    THEN [frames |-> frames,
          res |-> IF name \in DOMAIN frames[id].values
                  THEN Err(assigning_global(name))
                  ELSE Err(unbound_var(name))]
    ELSE [frames |-> [frames EXCEPT ![id].values = insert(@, name, value)],
          res |-> Ok(Unit)]

\* A variant of assign that overwrites the nearest frame holding the name,
\* the Global frame included.
assign_through_global(frames, id, name, value) ==
    LET h == HolderOf(frames, id, name)
    IN  IF h = 0 THEN [frames |-> frames, res |-> Err(unbound_var(name))]
        ELSE [frames |-> [frames EXCEPT ![h].values = insert(@, name, value)],
              res |-> Ok(Unit)]

\* Environment::assign, on the frame `id`
assign_at(frames, id, name, value) ==
    IF frames[id].kind = "Global"
    THEN [frames |-> frames,
          res |-> IF name \in DOMAIN frames[id].values
                  THEN Err(assigning_global(name))
                  ELSE Err(unbound_var(name))]
    ELSE IF name \in DOMAIN frames[id].values
         THEN [frames |-> [frames EXCEPT ![id].values = insert(@, name, value)],
               res |-> Ok(Unit)]
         ELSE assign_at(frames, frames[id].enclosing, name, value)

assign(e, name, value) ==
    LET r == assign_at(e.frames, e.cur, name, value)
    IN  [env |-> [e EXCEPT !.frames = r.frames], res |-> r.res]

\* The chain of frame ids from the current frame outward, while it is a chain
RECURSIVE ChainFrom(_, _, _)
ChainFrom(frames, id, fuel) ==
    IF fuel = 0 \/ id \notin DOMAIN frames THEN << >>
    ELSE IF frames[id].kind = "Global" THEN <<id>>
    ELSE <<id>> \o ChainFrom(frames, frames[id].enclosing, fuel - 1)

Chain(e) == ChainFrom(e.frames, e.cur, Cardinality(DOMAIN e.frames))
Depth(e) == Len(Chain(e)) - 1

(***************************************************************************)
(* SpecEnv: an Environment built by with_globals and driven by arbitrary   *)
(* calls of its public methods.                                            *)
(***************************************************************************)
Maps == UNION {[D -> Vals] : D \in SUBSET Names}

ParkedLox == [pc |-> "parked"]
ParkedScanner == [source |-> << >>]
ParkedParser == [pc |-> "parked"]
ParkedResolver == [pc |-> "parked"]
ParkedEvaluation == [pc |-> "parked"]
ParkedSession == [pc |-> "parked"]

EnvInit ==
    /\ \E g \in Maps : env = with_globals(g)
    /\ lastOp = [op |-> "with_globals", name |-> "", value |-> Unit,
                 res |-> Ok(Unit), before |-> env]
    /\ lox = ParkedLox
    /\ sc = ParkedScanner
    /\ emitted = << >>
    /\ parser = ParkedParser
    /\ resolver = ParkedResolver
    /\ evaluation = ParkedEvaluation
    /\ session = ParkedSession

Record(op, name, value, res) ==
    [op |-> op, name |-> name, value |-> value, res |-> res, before |-> env]

Push ==
    /\ Depth(env) < MaxDepth
    /\ env' = push(env)
    /\ lastOp' = Record("push", "", Unit, Ok(Unit))
    /\ UNCHANGED <<lox, sc, emitted, parser, resolver, evaluation, session>>

\* pop on a Global environment panics: the process ends, no state follows
Pop ==
    /\ CanPop(env)
    /\ env' = pop(env)
    /\ lastOp' = Record("pop", "", Unit, Ok(Unit))
    /\ UNCHANGED <<lox, sc, emitted, parser, resolver, evaluation, session>>

Define ==
    \E name \in Names, value \in Vals :
        LET r == define(env, name, value)
        IN  /\ env' = r.env
            /\ lastOp' = Record("define", name, value, r.res)
            /\ UNCHANGED <<lox, sc, emitted, parser, resolver, evaluation, session>>

Assign ==
    \E name \in Names, value \in Vals :
        LET r == assign(env, name, value)
        IN  /\ env' = r.env
            /\ lastOp' = Record("assign", name, value, r.res)
            /\ UNCHANGED <<lox, sc, emitted, parser, resolver, evaluation, session>>

Get ==
    \E name \in Names :
        /\ env' = env
        /\ lastOp' = Record("get", name, Unit, get(env, name))
        /\ UNCHANGED <<lox, sc, emitted, parser, resolver, evaluation, session>>

EnvNext == Push \/ Pop \/ Define \/ Assign \/ Get

SpecEnv == EnvInit /\ [][EnvNext]_vars

(***************************************************************************)
(* Claims about the Environment (checked under SpecEnv)                    *)
(***************************************************************************)
\* The frames of `b` other than `id` are the frames of `a`, unchanged
OtherFramesSame(a, b, id) ==
    /\ DOMAIN a.frames = DOMAIN b.frames
    /\ a.cur = b.cur
    /\ \A i \in DOMAIN a.frames : i # id => a.frames[i] = b.frames[i]

\* Frame `id` of `b` is frame `id` of `a` with name bound to value, nothing else changed
BoundIn(a, b, id, name, value) ==
    /\ OtherFramesSame(a, b, id)
    /\ b.frames[id].kind = a.frames[id].kind
    /\ b.frames[id].enclosing = a.frames[id].enclosing
    /\ DOMAIN b.frames[id].values = (DOMAIN a.frames[id].values) \cup {name}
    /\ b.frames[id].values[name] = value
    /\ \A n \in DOMAIN a.frames[id].values :
           n # name => b.frames[id].values[n] = a.frames[id].values[n]

DefineEffect ==
    /\ lastOp.res = Ok(Unit)
    /\ BoundIn(lastOp.before, env, lastOp.before.cur, lastOp.name, lastOp.value)
    /\ get(env, lastOp.name) = Ok(lastOp.value)
    /\ get(pop(env), lastOp.name) = get(pop(lastOp.before), lastOp.name)

\* C2 as stated: define always succeeds and binds the name in the current
\* frame only; get then returns the value, the enclosing frames are unchanged,
\* and after popping the current frame get returns the outer binding again.
C2_DefineAlwaysSucceeds ==
    lastOp.op = "define" => DefineEffect

\* C2 amended: define on a Local current frame succeeds and binds the name in
\* that frame only (get returns the value, every other frame is unchanged,
\* after pop get returns what the enclosing chain gave before); define on a
\* Global environment fails with DefiningGlobal and changes nothing.
C2_DefineCurrentFrameOnly ==
    lastOp.op = "define" =>
        IF IsGlobal(lastOp.before)
        THEN /\ lastOp.res = Err(DefiningGlobal(lastOp.name))
             /\ env = lastOp.before
        ELSE DefineEffect

\* A define that shadows an outer binding of another value
C2_Witness ==
    /\ lastOp.op = "define"
    /\ ~IsGlobal(lastOp.before)
    /\ lastOp.res = Ok(Unit)
    /\ get(pop(env), lastOp.name).ok
    /\ get(pop(env), lastOp.name) # Ok(lastOp.value)

AssignHolder == HolderOf(lastOp.before.frames, lastOp.before.cur, lastOp.name)

AssignOverwrites(h) ==
    /\ lastOp.res = Ok(Unit)
    /\ BoundIn(lastOp.before, env, h, lastOp.name, lastOp.value)
    /\ \A i \in DOMAIN env.frames :
           DOMAIN env.frames[i].values = DOMAIN lastOp.before.frames[i].values

AssignUnbound ==
    /\ lastOp.res = Err(unbound_var(lastOp.name))
    /\ env = lastOp.before

\* C3 as stated: assign overwrites the nearest frame holding the name, the
\* global frame included; with no holder it fails with UnboundVar and changes
\* nothing.
C3_AssignNearestInclGlobal ==
    lastOp.op = "assign" =>
        IF AssignHolder # 0 THEN AssignOverwrites(AssignHolder) ELSE AssignUnbound

\* C3 amended: assign overwrites the binding in the nearest Local frame that
\* holds the name and changes no other frame; when only the global frame
\* holds the name it fails with AssigningGlobal and changes nothing; when no
\* frame holds it, it fails with UnboundVar, changes nothing, creates nothing.
C3_AssignNearestLocal ==
    lastOp.op = "assign" =>
        IF AssignHolder = 0 THEN AssignUnbound
        ELSE IF lastOp.before.frames[AssignHolder].kind = "Global"
             THEN /\ lastOp.res = Err(assigning_global(lastOp.name))
                  /\ env = lastOp.before
             ELSE AssignOverwrites(AssignHolder)

\* An assign that reaches past the current frame into an enclosing Local frame
C3_Witness ==
    /\ lastOp.op = "assign"
    /\ AssignHolder # 0
    /\ AssignHolder # lastOp.before.cur
    /\ lastOp.before.frames[AssignHolder].kind = "Local"
    /\ lastOp.before.frames[AssignHolder].values[lastOp.name] # lastOp.value
    /\ lastOp.res = Ok(Unit)

GetHolder == HolderOf(env.frames, env.cur, lastOp.name)

ChainOK(e) ==
    LET c == Chain(e)
    IN  /\ Len(c) >= 1
        /\ c[1] = e.cur
        /\ c[Len(c)] = 1
        /\ e.frames[1].kind = "Global"
        /\ \A i \in 1..(Len(c) - 1) :
               /\ e.frames[c[i]].kind = "Local"
               /\ e.frames[c[i]].enclosing = c[i + 1]
        /\ \A i, j \in 1..Len(c) : c[i] = c[j] => i = j
        /\ DOMAIN e.frames = {c[i] : i \in 1..Len(c)}

LinksFixed ==
    \A i \in (DOMAIN env.frames) \cap (DOMAIN env'.frames) :
        /\ env'.frames[i].enclosing = env.frames[i].enclosing
        /\ env'.frames[i].kind = env.frames[i].kind

\* C6: after any sequence of push, pop, define and assign from with_globals
\* the environment is a finite acyclic chain of Local frames ending in exactly
\* one Global frame, and no step changes the enclosing link of a live frame.
C6_ChainAcyclicLinksFixed ==
    [](ChainOK(env)) /\ [][LinksFixed]_vars

\* A chain of two Local frames reached again after a pop
C6_Witness ==
    /\ lastOp.op = "push"
    /\ Depth(env) = 2
    /\ \E n \in Names : n \in DOMAIN env.frames[Chain(env)[2]].values

\* The Global frame at the end of the chain of e
GlobalFrameOf(e) == e.frames[GlobalOf(e.frames, e.cur)]

\* What a step of the API does to the global frame: nothing; define on a
\* Global environment and assign of a name that only the global frame holds
\* fail with their errors and leave the environment as it was
GlobalFrameKept ==
    /\ GlobalFrameOf(env') = GlobalFrameOf(env)
    /\ (lastOp'.op = "define" /\ IsGlobal(env)) =>
           /\ lastOp'.res = Err(DefiningGlobal(lastOp'.name))
           /\ env' = env
    /\ (/\ lastOp'.op = "assign"
        /\ HolderOf(env.frames, env.cur, lastOp'.name) # 0
        /\ HolderOf(env.frames, env.cur, lastOp'.name) = GlobalOf(env.frames, env.cur)) =>
           /\ lastOp'.res = Err(assigning_global(lastOp'.name))
           /\ env' = env

\* C28: the contents of the global frame never change after with_globals:
\* every step of define, assign, push and pop leaves the global frame as it
\* was (so every name of it keeps its initial value), define on a Global
\* environment fails with DefiningGlobal and an assign that reaches the
\* global frame for a name it holds fails with AssigningGlobal.
C28_GlobalFrameNeverChanges ==
    [][GlobalFrameKept]_vars

\* An assign of another value to a name of the global frame was refused on
\* the bare Global environment, reached by popping the first Local frame
C28_Witness ==
    /\ IsGlobal(env)
    /\ lastOp.op = "assign"
    /\ lastOp.name \in DOMAIN GlobalFrameOf(env).values
    /\ GlobalFrameOf(env).values[lastOp.name] # lastOp.value
    /\ lastOp.res = Err(assigning_global(lastOp.name))

(***************************************************************************)
(* Values, expressions and statements (interpreter/value.rs, parse/expr.rs,*)
(* parse/stmt.rs, parse/function.rs)                                       *)
(***************************************************************************)
Nil == [t |-> "Nil"]
Bool(b) == [t |-> "Bool", b |-> b]
Number(n) == [t |-> "Number", n |-> n]
Str(s) == [t |-> "String", s |-> s]
\* Value::Function(LoxFunction): name, params and body; no environment
Function(name, params, body) ==
    [t |-> "Function", name |-> name, params |-> params, body |-> body]

\* A variant of is_truthy that takes the number 0 and the empty string for
\* false as well
is_truthy_zero_is_false(v) ==
    IF v.t = "Nil" THEN FALSE
    ELSE IF v.t = "Bool" THEN v.b
    ELSE IF v.t = "Number" THEN v.n # 0
    ELSE IF v.t = "String" THEN v.s # << >>
    ELSE TRUE

\* Value::is_truthy
is_truthy(v) ==
    IF v.t = "Nil" THEN FALSE
    ELSE IF v.t = "Bool" THEN v.b
    ELSE TRUE

NoExpr == [k |-> "NoExpr"]
NoStmt == [k |-> "NoStmt"]
Literal(v) == [k |-> "Literal", lit |-> v]
Grouping(e) == [k |-> "Grouping", inner |-> e]
Unary(op, right) == [k |-> "Unary", uop |-> op, right |-> right]
Binary(left, op, right) == [k |-> "Binary", left |-> left, bop |-> op, right |-> right]
Variable(name) == [k |-> "Variable", name |-> name]
AssignE(name, e) == [k |-> "Assign", name |-> name, expr |-> e]
Logical(left, op, right) == [k |-> "Logical", left |-> left, lop |-> op, right |-> right]
Call(callee, args) == [k |-> "Call", callee |-> callee, args |-> args]

VarS(name, init) == [k |-> "Var", name |-> name, initializer |-> init]
ExpressionS(e) == [k |-> "Expression", e |-> e]
IfS(c, th, el) == [k |-> "If", condition |-> c, then_branch |-> th, else_branch |-> el]
PrintS(e) == [k |-> "Print", e |-> e]
BlockS(stmts) == [k |-> "Block", statements |-> stmts]
WhileS(c, body) == [k |-> "While", condition |-> c, body |-> body]
FunctionS(name, params, body) ==
    [k |-> "Function", name |-> name, params |-> params, body |-> body]
ReturnS(e) == [k |-> "Return", e |-> e]

\* RuntimeError::type_error (the message is not modelled)
type_error == [kind |-> "TypeError"]
\* RuntimeError::Return
ReturnSignal(value) == [kind |-> "Return", value |-> value]
\* RuntimeError::ArityMismatch
ArityMismatch(name, arity, num_args) ==
    [kind |-> "ArityMismatch", name |-> name, arity |-> arity, num_args |-> num_args]
\* RuntimeError::CallingNonCallable
CallingNonCallable(value) == [kind |-> "CallingNonCallable", value |-> value]
\* Not an error of the program: the evaluation has not ended within MaxFuel
\* loop iterations and calls
Diverged == [kind |-> "Diverged"]
NoErr == [kind |-> "NoErr"]

(***************************************************************************)
(* Interpreter (interpreter/interpreter.rs).  The state threaded through   *)
(* evaluation is st = [env, out, log, depth]: the interpreter's            *)
(* environment, what println! wrote, and a history of what was executed    *)
(* (statement entries, errors raised, calls entered and left) with the     *)
(* call depth it happened at.                                              *)
(***************************************************************************)
MaxFuel == 3        \* while iterations plus calls one statement may take

OkR(v, st) == [ok |-> TRUE, val |-> v, err |-> NoErr, st |-> st]
Event(ev, k, st, at, fn, val) ==
    [ev |-> ev, k |-> k, depth |-> st.depth, at |-> at, fn |-> fn, val |-> val]
Logged(st, ev, k, at, fn, val) ==
    [st EXCEPT !.log = Append(@, Event(ev, k, st, at, fn, val))]
\* An Err(e) produced (not merely passed on) at this point
Raise(e, st) ==
    [ok |-> FALSE, val |-> Nil, err |-> e,
     st |-> Logged(st, "raise", e.kind, 0, "",
                   IF e.kind = "Return" THEN e.value ELSE Nil)]

\* Interpreter::unary
unary(op, value, st) ==
    IF op = "Minus" /\ value.t = "Number" THEN OkR(Number(0 - value.n), st)
    ELSE IF op = "Not" THEN OkR(Bool(~is_truthy(value)), st)
    ELSE Raise(type_error, st)

\* f64 values.  Number(n) is a whole number; a quotient that is not whole is
\* the reduced fraction q = <<numerator, denominator>>, and a division by
\* zero gives IEEE's infinities and NaN.
RECURSIVE GCD(_, _)
GCD(a, b) == IF b = 0 THEN a ELSE GCD(b, a % b)
Abs(n) == IF n < 0 THEN 0 - n ELSE n
Fraction(num, den) == [t |-> "Number", q |-> <<num, den>>]
NotFinite(what) == [t |-> "Number", special |-> what]
NaN == NotFinite("NaN")

\* Value::Number(left / right) on f64
float_div(a, b) ==
    IF b = 0 THEN (IF a = 0 THEN NaN
                   ELSE IF a > 0 THEN NotFinite("inf") ELSE NotFinite("-inf"))
    ELSE LET sign == IF (a < 0) = (b < 0) THEN 1 ELSE 0 - 1
             g == GCD(Abs(a), Abs(b))
         IN  IF Abs(b) = g THEN Number(sign * (Abs(a) \div g))
             ELSE Fraction(sign * (Abs(a) \div g), Abs(b) \div g)

\* `left == right` of the derived PartialEq of Value: the same variant with
\* equal contents; NaN is the one f64 that is not equal to itself
value_eq(l, r) == l = r /\ l # NaN

\* A variant of binary whose + also takes a string and a number and
\* concatenates them
binary_concatenating_any(l, op, r, st) ==
    IF op = "Equal" THEN OkR(Bool(value_eq(l, r)), st)
    ELSE IF op = "NotEqual" THEN OkR(Bool(~value_eq(l, r)), st)
    ELSE IF op = "Add" /\ {l.t, r.t} = {"String", "Number"}
         THEN OkR(Str(IF l.t = "String" THEN Append(l.s, "#") ELSE <<"#">> \o r.s), st)
    ELSE IF l.t = "String" /\ r.t = "String" /\ op = "Add" THEN OkR(Str(l.s \o r.s), st)
    ELSE IF l.t # "Number" \/ r.t # "Number" THEN Raise(type_error, st)
    ELSE IF op = "Mult" THEN OkR(Number(l.n * r.n), st)
    ELSE IF op = "Div" THEN OkR(float_div(l.n, r.n), st)
    ELSE IF op = "Add" THEN OkR(Number(l.n + r.n), st)
    ELSE IF op = "Sub" THEN OkR(Number(l.n - r.n), st)
    ELSE IF op = "Greater" THEN OkR(Bool(l.n > r.n), st)
    ELSE IF op = "GreaterEqual" THEN OkR(Bool(l.n >= r.n), st)
    ELSE IF op = "Less" THEN OkR(Bool(l.n < r.n), st)
    ELSE OkR(Bool(l.n <= r.n), st)

\* Interpreter::binary
binary(l, op, r, st) ==
    IF op = "Equal" THEN OkR(Bool(value_eq(l, r)), st)
    ELSE IF op = "NotEqual" THEN OkR(Bool(~value_eq(l, r)), st)
    ELSE IF l.t = "Number" /\ r.t = "Number" /\ op = "Mult" THEN OkR(Number(l.n * r.n), st)
    ELSE IF l.t = "Number" /\ r.t = "Number" /\ op = "Div"
         THEN OkR(float_div(l.n, r.n), st)
    ELSE IF l.t = "Number" /\ r.t = "Number" /\ op = "Add" THEN OkR(Number(l.n + r.n), st)
    ELSE IF l.t = "Number" /\ r.t = "Number" /\ op = "Sub" THEN OkR(Number(l.n - r.n), st)
    ELSE IF l.t = "String" /\ r.t = "String" /\ op = "Add" THEN OkR(Str(l.s \o r.s), st)
    ELSE IF l.t = "Number" /\ r.t = "Number" /\ op = "Greater" THEN OkR(Bool(l.n > r.n), st)
    ELSE IF l.t = "Number" /\ r.t = "Number" /\ op = "GreaterEqual"
         THEN OkR(Bool(l.n >= r.n), st)
    ELSE IF l.t = "Number" /\ r.t = "Number" /\ op = "Less" THEN OkR(Bool(l.n < r.n), st)
    ELSE IF l.t = "Number" /\ r.t = "Number" /\ op = "LessEqual"
         THEN OkR(Bool(l.n <= r.n), st)
    ELSE Raise(type_error, st)

\* Interpreter::push_env / Interpreter::pop_env: the old environment is moved
\* into a new frame (Environment::with, here Environment::local), and the
\* current frame gives way to its enclosing one (Environment::pop)
push_env(st) == [st EXCEPT !.env = push(@)]
pop_env(st) == [st EXCEPT !.env = pop(@)]

\* The frames of the chain of e, the Global frame excluded
LocalChain(e) == {Chain(e)[i] : i \in 1..(Len(Chain(e)) - 1)}

RECURSIVE expression(_, _, _)
RECURSIVE statement(_, _, _)
RECURSIVE eval_args(_, _, _, _, _)
RECURSIVE run_statements(_, _, _, _)
RECURSIVE while_loop(_, _, _, _)
RECURSIVE bind_params(_, _, _, _)
RECURSIVE return_stmt(_, _, _)

\* `for stmt in statements { res = self.statement(stmt); if res.is_err() { break; } }`
run_statements(stmts, i, st, fuel) ==
    IF i > Len(stmts) THEN OkR(Unit, st)
    ELSE LET r == statement(stmts[i], st, fuel)
         IN  IF r.ok THEN run_statements(stmts, i + 1, r.st, fuel) ELSE r

\* A variant of the Block loop without the break: every statement runs and
\* the result of the last one is returned
RECURSIVE run_statements_no_break(_, _, _, _, _)
run_statements_no_break(stmts, i, st, fuel, res) ==
    IF i > Len(stmts) THEN [res EXCEPT !.st = st]
    ELSE LET r == statement(stmts[i], st, fuel)
         IN  run_statements_no_break(stmts, i + 1, r.st, fuel, r)

block_no_break(stmts, st, fuel) ==
    LET r == run_statements_no_break(stmts, 1, push_env(st), fuel, OkR(Unit, st))
    IN  [r EXCEPT !.st = pop_env(r.st)]

\* A variant of the Block arm that leaves with `?`: on an error the frame
\* is not popped
block_no_pop_on_error(stmts, st, fuel) ==
    LET r == run_statements(stmts, 1, push_env(st), fuel)
    IN  IF r.ok THEN [r EXCEPT !.st = pop_env(r.st)] ELSE r

\* Stmt::Block arm of Interpreter::statement
block(stmts, st, fuel) ==
    LET r == run_statements(stmts, 1, push_env(st), fuel)
    IN  [r EXCEPT !.st = pop_env(r.st)]

\* Stmt::While arm of Interpreter::statement
while_loop(condition, body, st, fuel) ==
    LET c == expression(condition, st, fuel)
    IN  IF ~c.ok THEN c
        ELSE IF ~is_truthy(c.val) THEN OkR(Unit, c.st)
        ELSE IF fuel = 0 THEN Raise(Diverged, c.st)
        ELSE LET b == statement(body, c.st, fuel - 1)
             IN  IF ~b.ok THEN b ELSE while_loop(condition, body, b.st, fuel - 1)

\* The arguments of a call, left to right: [ok, vals, err, st]
eval_args(args, i, vals, st, fuel) ==
    IF i > Len(args) THEN [ok |-> TRUE, vals |-> vals, err |-> NoErr, st |-> st]
    ELSE LET r == expression(args[i], st, fuel)
         IN  IF r.ok THEN eval_args(args, i + 1, Append(vals, r.val), r.st, fuel)
             ELSE [ok |-> FALSE, vals |-> vals, err |-> r.err, st |-> r.st]

bind_params(params, vals, i, e) ==
    IF i > Len(params) THEN e
    ELSE bind_params(params, vals, i + 1, define(e, params[i], vals[i]).env)

\* The environment a call of fn runs its body in.  LoxFunction holds no
\* environment (function.rs:4-8), so the frame is pushed on the shared Global
\* frame: Environment::globals
call_env(e, fn) == globals(e)

\* A call: the callee, the arguments, the arity check, a new frame with the
\* parameters bound, the body; a Return raised by the body ends the call
\* with its value, a body that falls through yields Nil.
call(callee, args, st0, fuel) ==
    LET c == expression(callee, st0, fuel)
    IN  IF ~c.ok THEN c
        ELSE LET a == eval_args(args, 1, << >>, c.st, fuel)
                 st == a.st
                 fn == c.val
             IN  IF ~a.ok THEN [ok |-> FALSE, val |-> Nil, err |-> a.err, st |-> st]
                 ELSE IF fn.t # "Function" THEN Raise(CallingNonCallable(fn), st)
                 ELSE IF Len(fn.params) # Len(a.vals)
                      THEN Raise(ArityMismatch(fn.name, Len(fn.params), Len(a.vals)), st)
                 ELSE IF fuel = 0 THEN Raise(Diverged, st)
                 ELSE LET frame == call_env(st.env, fn)
                          bound == bind_params(fn.params, a.vals, 1, frame)
                          inner == [Logged(st, "call", "Call",
                                           bound.frames[bound.cur].enclosing,
                                           fn.name, Nil)
                                       EXCEPT !.env = bound, !.depth = @ + 1]
                          b == run_statements(fn.body, 1, inner, fuel - 1)
                          \* the call's environment is dropped, the caller's restored
                          left == [frames |-> [i \in (DOMAIN b.st.env.frames)
                                                        \ LocalChain(b.st.env)
                                                   |-> b.st.env.frames[i]],
                                   cur |-> st.env.cur]
                          back(k, v) == [Logged(b.st, "exit", k, 0, fn.name, v)
                                            EXCEPT !.env = left, !.depth = st.depth]
                      IN  IF b.ok THEN OkR(Nil, back("Fallthrough", Nil))
                          ELSE IF b.err.kind = "Return"
                               THEN OkR(b.err.value, back("Return", b.err.value))
                          ELSE [b EXCEPT !.st = back("Error", Nil)]

\* A function statement binds the name to the function value in the current
\* frame
function_stmt(stmt, st) ==
    OkR(Unit, [Logged(st, "fun", "Function", st.env.cur, stmt.name, Nil) EXCEPT
                  !.env = define(st.env, stmt.name,
                                 Function(stmt.name, stmt.params, stmt.body)).env])

\* A return statement evaluates its expression (Nil without one) and raises
\* RuntimeError::Return with the value
return_stmt(stmt, st, fuel) ==
    IF stmt.e = NoExpr THEN Raise(ReturnSignal(Nil), st)
    ELSE LET v == expression(stmt.e, st, fuel)
         IN  IF ~v.ok THEN v ELSE Raise(ReturnSignal(v.val), v.st)

\* Interpreter::expression; the Call arm is the call above
expression(expr, st, fuel) ==
    CASE expr.k = "Literal" -> OkR(expr.lit, st)
      [] expr.k = "Grouping" -> expression(expr.inner, st, fuel)
      [] expr.k = "Unary" ->
            LET r == expression(expr.right, st, fuel)
            IN  IF r.ok THEN unary(expr.uop, r.val, r.st) ELSE r
      [] expr.k = "Binary" ->
            LET l == expression(expr.left, st, fuel)
            IN  IF ~l.ok THEN l
                ELSE LET r == expression(expr.right, l.st, fuel)
                     IN  IF ~r.ok THEN r ELSE binary(l.val, expr.bop, r.val, r.st)
      [] expr.k = "Variable" ->
            LET g == get(st.env, expr.name)
            IN  IF g.ok THEN OkR(g.val, st) ELSE Raise(g.err, st)
      [] expr.k = "Assign" ->
            LET v == expression(expr.expr, st, fuel)
            IN  IF ~v.ok THEN v
                ELSE LET a == assign(v.st.env, expr.name, v.val)
                     IN  IF a.res.ok THEN OkR(v.val, [v.st EXCEPT !.env = a.env])
                         ELSE Raise(a.res.err, v.st)
      [] expr.k = "Logical" ->
            LET l == expression(expr.left, st, fuel)
            IN  IF ~l.ok THEN l
                ELSE IF (is_truthy(l.val) /\ expr.lop = "Or")
                        \/ (~is_truthy(l.val) /\ expr.lop = "And")
                     THEN l
                     ELSE expression(expr.right, l.st, fuel)
      [] expr.k = "Call" -> call(expr.callee, expr.args, st, fuel)

\* Interpreter::statement; the Function and Return arms are the two
\* operators above
statement(stmt, st0, fuel) ==
    LET st == Logged(st0, "stmt", stmt.k, 0, "", Nil)
    IN  CASE stmt.k = "Var" ->
                IF stmt.initializer = NoExpr
                THEN OkR(Unit, [st EXCEPT !.env = define(@, stmt.name, Nil).env])
                ELSE LET v == expression(stmt.initializer, st, fuel)
                     IN  IF ~v.ok THEN v
                         ELSE OkR(Unit, [v.st EXCEPT
                                            !.env = define(@, stmt.name, v.val).env])
          [] stmt.k = "Expression" ->
                LET v == expression(stmt.e, st, fuel)
                IN  IF v.ok THEN OkR(Unit, v.st) ELSE v
          [] stmt.k = "If" ->
                LET c == expression(stmt.condition, st, fuel)
                IN  IF ~c.ok THEN c
                    ELSE IF is_truthy(c.val) THEN statement(stmt.then_branch, c.st, fuel)
                    ELSE IF stmt.else_branch # NoStmt
                         THEN statement(stmt.else_branch, c.st, fuel)
                    ELSE OkR(Unit, c.st)
          [] stmt.k = "Print" ->
                LET v == expression(stmt.e, st, fuel)
                IN  IF ~v.ok THEN v
                    ELSE OkR(Unit, [v.st EXCEPT !.out = Append(@, v.val)])
          [] stmt.k = "Block" -> block(stmt.statements, st, fuel)
          [] stmt.k = "While" -> while_loop(stmt.condition, stmt.body, st, fuel)
          [] stmt.k = "Function" -> function_stmt(stmt, st)
          [] stmt.k = "Return" -> return_stmt(stmt, st, fuel)

(***************************************************************************)
(* Spec: one call of Lox::run (lib.rs).  The source text is given by what  *)
(* Lox::parse makes of it: a ParseError or the statements.                 *)
(***************************************************************************)
MaxStmts == 2       \* top-level statements of a program

One == Literal(Number(1))
Two == Literal(Number(2))
Three == Literal(Number(3))

Atoms ==
    {VarS("a", One), PrintS(Variable("a")), ExpressionS(AssignE("a", Two)),
     PrintS(Variable("b"))}

Blocks == {BlockS(<<s1, s2>>) : s1 \in Atoms, s2 \in Atoms}

\* { var b = 2; { print a; print b; } print b; }
NestedBlock ==
    BlockS(<<VarS("b", Two),
             BlockS(<<PrintS(Variable("a")), PrintS(Variable("b"))>>),
             PrintS(Variable("b"))>>)

\* while (a) { print a; a = false; }
LoopStmt ==
    WhileS(Variable("a"),
           BlockS(<<PrintS(Variable("a")),
                    ExpressionS(AssignE("a", Literal(Bool(FALSE))))>>))

\* if (a) print 1; else print b;
IfStmt == IfS(Variable("a"), PrintS(One), PrintS(Variable("b")))

\* fun f(a) {
\*   var b = a;
\*   while (b) { b = false; if (a) { return a; print 1; } print 1; }
\*   print 2;
\* }
FunReturn ==
    FunctionS("f", <<"a">>,
        <<VarS("b", Variable("a")),
          WhileS(Variable("b"),
                 BlockS(<<ExpressionS(AssignE("b", Literal(Bool(FALSE)))),
                          IfS(Variable("a"),
                              BlockS(<<ReturnS(Variable("a")), PrintS(One)>>),
                              NoStmt),
                          PrintS(One)>>)),
          PrintS(Two)>>)

\* fun f(a) { a = 2; print a; }
FunFallThrough ==
    FunctionS("f", <<"a">>, <<ExpressionS(AssignE("a", Two)), PrintS(Variable("a"))>>)

\* fun g() { print a; }
FunFree == FunctionS("g", << >>, <<PrintS(Variable("a"))>>)

\* fun h(f) { print f(3); return 2; print 1; }
FunNested ==
    FunctionS("h", <<"f">>,
        <<PrintS(Call(Variable("f"), <<Three>>)), ReturnS(Two), PrintS(One)>>)

\* print f(3);
CallF == PrintS(Call(Variable("f"), <<Three>>))
\* print h(f);
CallH == PrintS(Call(Variable("h"), <<Variable("f")>>))
CallG == ExpressionS(Call(Variable("g"), << >>))
CallFNoArgs == ExpressionS(Call(Variable("f"), << >>))
CallA == ExpressionS(Call(Variable("a"), << >>))
TopReturn == ReturnS(One)

\* { var a = 1; fun g() { print a; } g(); }
ClosureBlock == BlockS(<<VarS("a", One), FunFree, CallG>>)

Statements ==
    Atoms \cup Blocks \cup
    {NestedBlock, LoopStmt, IfStmt, FunReturn, FunFallThrough, FunFree,
     CallF, CallG, CallFNoArgs, CallA, TopReturn, ClosureBlock}

\* Statements for the longer programs
Simple == Atoms \cup {PrintS(One)}

\* fun f(a) { ... return a; ... }  fun h(f) { print f(3); return 2; ... }  print h(f);
Scenarios == {<<FunReturn, FunNested, CallH>>}

Programs ==
    SeqsUpTo(Statements, MaxStmts) \cup SeqsUpTo(Simple, MaxStmts + 1) \cup Scenarios

\* What Lox::parse returns for the source text
ParseOutcomes ==
    {Err([kind |-> "UnexpectedEnd"])} \cup {Ok(prog) : prog \in Programs}

NoResult == [ok |-> FALSE, err |-> [stage |-> "None", error |-> NoErr]]
\* impl From<ParseError> for LoxError / impl From<RuntimeError> for LoxError
LoxError(stage, e) == [ok |-> FALSE, err |-> [stage |-> stage, error |-> e]]
RunOk == [ok |-> TRUE, err |-> [stage |-> "None", error |-> NoErr]]

\* Interpreter::new.  Its Environment::new() is with_globals of an empty map:
\* a Local frame on the Global frame, the only shape define can write to
NewInterpreter ==
    [env |-> with_globals(EmptyMap), out |-> << >>, log |-> << >>, depth |-> 0]

\* Lox::new, and the argument of the run call
LoxInit ==
    /\ \E parsed \in ParseOutcomes :
           lox = [pc |-> "run", parsed |-> parsed, idx |-> 1,
                  st |-> NewInterpreter, before |-> NewInterpreter,
                  stages |-> << >>, result |-> NoResult]
    /\ env = ParkedEnv
    /\ lastOp = ParkedOp
    /\ sc = ParkedScanner
    /\ emitted = << >>
    /\ parser = ParkedParser
    /\ resolver = ParkedResolver
    /\ evaluation = ParkedEvaluation
    /\ session = ParkedSession

\* `let statements = self.parse(contents)?;`
Parse ==
    /\ lox.pc = "run"
    /\ lox' = IF lox.parsed.ok
              THEN [lox EXCEPT !.pc = "interpret",
                               !.stages = <<"lexer", "parser", "evaluator">>]
              ELSE [lox EXCEPT !.pc = "done",
                               !.stages = <<"lexer", "parser">>,
                               !.result = LoxError("Parse", lox.parsed.err)]
    /\ UNCHANGED <<env, lastOp, sc, emitted, parser, resolver, evaluation, session>>

\* A variant of Interpreter::interpret that drops the `?`: it goes on with
\* the next statement after an error
interpret_ignoring_error(l, r) ==
    [l EXCEPT !.idx = @ + 1, !.before = l.st, !.st = r.st]

\* `self.statement(stmt)?` on an Err: interpret returns it, and Lox::run
\* returns it as LoxError::Runtime
interpret_after_error(l, r) ==
    [l EXCEPT !.pc = "done", !.before = l.st, !.st = r.st,
              !.result = LoxError("Runtime", r.err)]

\* One iteration of `for stmt in stmts { self.statement(stmt)?; }`
interpret_step(l, r) ==
    IF r.ok THEN [l EXCEPT !.idx = @ + 1, !.before = l.st, !.st = r.st]
    ELSE interpret_after_error(l, r)

Interpret ==
    /\ lox.pc = "interpret"
    /\ lox.idx <= Len(lox.parsed.val)
    /\ With(statement(lox.parsed.val[lox.idx], lox.st, MaxFuel), LAMBDA r :
            /\ r.err # Diverged
            /\ lox' = interpret_step(lox, r))
    /\ UNCHANGED <<env, lastOp, sc, emitted, parser, resolver, evaluation, session>>

\* The loop is over: `Ok(())`
Finish ==
    /\ lox.pc = "interpret"
    /\ lox.idx > Len(lox.parsed.val)
    /\ lox' = [lox EXCEPT !.pc = "done", !.result = RunOk]
    /\ UNCHANGED <<env, lastOp, sc, emitted, parser, resolver, evaluation, session>>

Next == Parse \/ Interpret \/ Finish

Spec == LoxInit /\ [][Next]_vars

(***************************************************************************)
(* Properties of Lox::run                                                  *)
(***************************************************************************)
Log == lox.st.log
Failed == lox.pc = "done" /\ lox.result.err.stage = "Runtime"
IsPrefix(s, t) == Len(s) <= Len(t) /\ SubSeq(t, 1, Len(s)) = s
\* Statement idx was a Block and has been executed (to its end or to an error)
BlockDone ==
    /\ lox.pc \in {"interpret", "done"}
    /\ IF Failed THEN lox.parsed.val[lox.idx].k = "Block"
       ELSE lox.idx > 1 /\ lox.parsed.val[lox.idx - 1].k = "Block"
SameChain(e1, e2) ==
    /\ Chain(e1) = Chain(e2)
    /\ DOMAIN e1.frames = DOMAIN e2.frames
    /\ \A i \in DOMAIN e1.frames :
           /\ e1.frames[i].kind = e2.frames[i].kind
           /\ e1.frames[i].enclosing = e2.frames[i].enclosing
\* An error no call absorbs: any error but Return, and a Return outside a call
Unabsorbed(e) == e.ev = "raise" /\ (e.k # "Return" \/ e.depth = 0)

\* C1: every call of Lox::run goes through the stages lexer, parser, resolver,
\* evaluator in this order: once the source has parsed, the resolver has run
\* before the evaluator, and a source that does not parse stops after the
\* parser.
C1_FourStagesInOrder ==
    lox.pc # "run" =>
        IF lox.parsed.ok
        THEN lox.stages = <<"lexer", "parser", "resolver", "evaluator">>
        ELSE lox.stages = <<"lexer", "parser">> /\ lox.result.err.stage = "Parse"

\* C5: after a Block has been executed, to its end or to a failing statement,
\* the environment is the frame chain that was current before it (the same
\* frames with the same links, none left over), and an error is never
\* followed by the execution of another statement.
C5_BlockRestoresChain ==
    /\ BlockDone => SameChain(lox.st.env, lox.before.env)
    /\ \A i \in 1..(Len(Log) - 1) : Log[i].ev = "raise" => Log[i + 1].ev # "stmt"

\* A nested block has failed in its inner block
C5_Witness ==
    /\ Failed
    /\ lox.parsed.val[lox.idx] = NestedBlock
    /\ Len(Chain(lox.st.env)) = 2
    /\ Cardinality({i \in DOMAIN Log : Log[i].ev = "stmt" /\ Log[i].k = "Block"}) = 2

\* C7: when a top-level statement fails with a runtime error, run is over and
\* returns that error, nothing is executed after the error, and what the
\* statements before it printed and defined is still there.
C7_ErrorEndsInterpret ==
    \A i \in DOMAIN Log :
        Unabsorbed(Log[i]) =>
            /\ lox.pc = "done"
            /\ lox.result.err.stage = "Runtime"
            /\ lox.result.err.error.kind = Log[i].k
            /\ \A j \in (i + 1)..Len(Log) : Log[j].ev = "exit"
            /\ lox.idx <= Len(lox.parsed.val)
            /\ IsPrefix(lox.before.out, lox.st.out)
            /\ \A f \in DOMAIN lox.before.env.frames :
                   /\ f \in DOMAIN lox.st.env.frames
                   /\ DOMAIN lox.before.env.frames[f].values
                          \subseteq DOMAIN lox.st.env.frames[f].values

\* The second of three statements has failed after the first has printed
C7_Witness ==
    /\ Failed
    /\ lox.idx = 2
    /\ Len(lox.parsed.val) = 3
    /\ lox.before.out # << >>
    /\ lox.st.out = lox.before.out
    /\ \E i \in DOMAIN Log : Unabsorbed(Log[i])

C9_CallFrameOnDefinitionChain ==
    /\ \A i \in DOMAIN Log :
           Log[i].ev = "call" =>
               \E j \in 1..(i - 1) :
                   /\ Log[j].ev = "fun"
                   /\ Log[j].fn = Log[i].fn
                   /\ Log[j].at = Log[i].at
    /\ (lox.pc = "done" /\ lox.parsed = Ok(<<ClosureBlock>>)) =>
           lox.result.ok /\ lox.st.out = <<Number(1)>>

(***************************************************************************)
(* Scanner (lex/scanner.rs).  The source is a sequence of one-byte chars;  *)
(* start and current are byte offsets (0-based), consumed is the position  *)
(* of the char_indices iterator.                                           *)
(***************************************************************************)
LF == "\n"
QUOTE == "\""
Digits == {"0", "1", "2", "3", "4", "5", "6", "7", "8", "9"}
Letters ==
    {"a", "b", "c", "d", "e", "f", "g", "h", "i", "j", "k", "l", "m",
     "n", "o", "p", "q", "r", "s", "t", "u", "v", "w", "x", "y", "z",
     "A", "B", "C", "D", "E", "F", "G", "H", "I", "J", "K", "L", "M",
     "N", "O", "P", "Q", "R", "S", "T", "U", "V", "W", "X", "Y", "Z", "_"}
Whitespace == {" ", LF, "\t", "\r"}

\* The characters sources are drawn from
Alphabet == {"1", "a", QUOTE, "/", LF, " ", ".", "=", "@"}

\* Every character a predicate of the scanner may be asked about
Chars ==
    Alphabet \cup Whitespace \cup Digits \cup Letters \cup
    {"(", ")", "{", "}", ",", ".", "-", "+", ";", "*", "!", "=", "<", ">", "/", QUOTE}

None == [typ |-> "None", line |-> 0, lexeme |-> << >>]
NoChar == "<none>"

\* Token::new
Token(line, typ, lexeme) == [typ |-> typ, line |-> line, lexeme |-> lexeme]

\* Scanner::new
NewScanner(source) ==
    [source |-> source, consumed |-> 0, start |-> 0, current |-> 0,
     line |-> 1, eof |-> FALSE]

\* Scanner::peek
peek(s) == IF s.consumed < Len(s.source) THEN s.source[s.consumed + 1] ELSE NoChar

\* Scanner::next_idx
next_idx(s) == IF s.consumed < Len(s.source) THEN s.consumed ELSE Len(s.source)

\* A variant of advance that does not count lines
advance_not_counting_lines(s) ==
    IF s.consumed >= Len(s.source) THEN [s |-> s, ch |-> NoChar]
    ELSE LET s1 == [s EXCEPT !.consumed = @ + 1]
         IN  [s |-> [s1 EXCEPT !.current = IF s1.consumed < Len(s1.source)
                                           THEN s1.consumed ELSE Len(s1.source)],
              ch |-> s.source[s.consumed + 1]]

\* Scanner::advance: [s, ch], ch = NoChar when the input is exhausted
advance(s) ==
    IF s.consumed >= Len(s.source) THEN [s |-> s, ch |-> NoChar]
    ELSE LET ch == s.source[s.consumed + 1]
             s1 == [s EXCEPT !.consumed = @ + 1,
                             !.line = IF ch = LF THEN @ + 1 ELSE @]
         IN  [s |-> [s1 EXCEPT !.current = next_idx(s1)], ch |-> ch]

\* Scanner::advance_if; pred is the set of characters the predicate accepts
advance_if(s, pred) ==
    IF peek(s) # NoChar /\ peek(s) \in pred THEN advance(s)
    ELSE [s |-> s, ch |-> NoChar]

\* A variant of advance_while that never goes over a line end
RECURSIVE advance_while_one_line(_, _)
advance_while_one_line(s, pred) ==
    LET r == advance_if(s, pred \ {LF})
    IN  IF r.ch # NoChar THEN advance_while_one_line(r.s, pred) ELSE s

\* Scanner::advance_while
RECURSIVE advance_while(_, _)
advance_while(s, pred) ==
    LET r == advance_if(s, pred)
    IN  IF r.ch # NoChar THEN advance_while(r.s, pred) ELSE s

\* Scanner::match_next: [s, hit]
match_next(s, ch) ==
    LET r == advance_if(s, {ch})
    IN  [s |-> r.s, hit |-> r.ch # NoChar]

\* Scanner::skip_whitespace
skip_whitespace(s) == advance_while(s, Whitespace)

\* A variant of current_lexeme whose slice starts one character early
current_lexeme_one_early(s) ==
    SubSeq(s.source, IF s.start = 0 THEN 1 ELSE s.start, s.current)

\* Scanner::current_lexeme
current_lexeme(s) == SubSeq(s.source, s.start + 1, s.current)

\* is_kw_char
KwChars == Letters \cup Digits

\* TokenType::get
KeywordOrIdentifier(lexeme) ==
    IF lexeme = <<"a", "n", "d">> THEN "And"
    ELSE IF lexeme = <<"c", "l", "a", "s", "s">> THEN "Class"
    ELSE IF lexeme = <<"e", "l", "s", "e">> THEN "Else"
    ELSE IF lexeme = <<"f", "a", "l", "s", "e">> THEN "False"
    ELSE IF lexeme = <<"f", "o", "r">> THEN "For"
    ELSE IF lexeme = <<"f", "u", "n">> THEN "Fun"
    ELSE IF lexeme = <<"i", "f">> THEN "If"
    ELSE IF lexeme = <<"n", "i", "l">> THEN "Nil"
    ELSE IF lexeme = <<"o", "r">> THEN "Or"
    ELSE IF lexeme = <<"p", "r", "i", "n", "t">> THEN "Print"
    ELSE IF lexeme = <<"r", "e", "t", "u", "r", "n">> THEN "Return"
    ELSE IF lexeme = <<"s", "u", "p", "e", "r">> THEN "Super"
    ELSE IF lexeme = <<"t", "h", "i", "s">> THEN "This"
    ELSE IF lexeme = <<"t", "r", "u", "e">> THEN "True"
    ELSE IF lexeme = <<"v", "a", "r">> THEN "Var"
    ELSE IF lexeme = <<"w", "h", "i", "l", "e">> THEN "While"
    ELSE "Identifier"

\* Scanner::advance_number: [s, typ]
advance_number(s) ==
    LET s1 == advance_while(s, Digits)
        m == match_next(s1, ".")
    IN  IF m.hit
        THEN LET d == advance_if(m.s, Digits)
             IN  IF d.ch # NoChar
                 THEN [s |-> advance_while(d.s, Digits), typ |-> "Number"]
                 ELSE [s |-> m.s, typ |-> "ErrorMalformedNumber"]
        ELSE [s |-> s1, typ |-> "Number"]

SingleCharTokens ==
    [c \in {"(", ")", "{", "}", ",", ".", "-", "+", ";", "*"} |->
        CASE c = "(" -> "LeftParen" [] c = ")" -> "RightParen"
          [] c = "{" -> "LeftBrace" [] c = "}" -> "RightBrace"
          [] c = "," -> "Comma" [] c = "." -> "Dot" [] c = "-" -> "Minus"
          [] c = "+" -> "Plus" [] c = ";" -> "Semicolon" [] c = "*" -> "Star"]

OneOrTwo(s, one, two) ==
    LET m == match_next(s, "=")
    IN  [s |-> m.s, typ |-> IF m.hit THEN two ELSE one]

\* Scanner::scan_token: [s, tok], tok = None when the input is exhausted.
\* panicked marks the `Some(_) => panic!` arm of the string literal.
scan_token(s0) ==
    LET w == skip_whitespace(s0)
        s1 == [w EXCEPT !.start = w.current]
        a == advance(s1)
        s == a.s
        ch == a.ch
        Emit(r) == [s |-> r.s, tok |-> Token(r.s.line, r.typ, current_lexeme(r.s)),
                    panicked |-> FALSE]
    IN  IF ch = NoChar THEN [s |-> s, tok |-> None, panicked |-> FALSE]
        ELSE IF ch \in DOMAIN SingleCharTokens
             THEN Emit([s |-> s, typ |-> SingleCharTokens[ch]])
        ELSE IF ch = "!" THEN Emit(OneOrTwo(s, "Bang", "BangEqual"))
        ELSE IF ch = "=" THEN Emit(OneOrTwo(s, "Equal", "EqualEqual"))
        ELSE IF ch = "<" THEN Emit(OneOrTwo(s, "Less", "LessEqual"))
        ELSE IF ch = ">" THEN Emit(OneOrTwo(s, "Greater", "GreaterEqual"))
        ELSE IF ch = "/"
             THEN LET m == match_next(s, "/")
                  IN  IF m.hit
                      THEN Emit([s |-> advance_while(m.s, Chars \ {LF}),
                                 typ |-> "Comment"])
                      ELSE Emit([s |-> m.s, typ |-> "Slash"])
        ELSE IF ch = QUOTE
             THEN LET q == [s EXCEPT !.start = s.current]
                      starting_line == q.line
                      body == advance_while(q, Chars \ {QUOTE})
                      close == advance(body)
                  IN  IF close.ch = QUOTE
                      THEN [s |-> close.s,
                            tok |-> Token(starting_line, "String_", current_lexeme(body)),
                            panicked |-> FALSE]
                      ELSE IF close.ch # NoChar
                      THEN [s |-> close.s, tok |-> None, panicked |-> TRUE]
                      ELSE [s |-> close.s,
                            tok |-> Token(close.s.line, "ErrorUnclosedString",
                                          current_lexeme(close.s)),
                            panicked |-> FALSE]
        ELSE IF ch \in Digits THEN Emit(advance_number(s))
        ELSE IF ch \in Letters
             THEN LET i == advance_while(s, KwChars)
                  IN  Emit([s |-> i, typ |-> KeywordOrIdentifier(current_lexeme(i))])
        ELSE Emit([s |-> s, typ |-> "ErrorUnknownToken"])

\* A variant of next that forgets to set the eof flag
next_without_flag(s) ==
    IF s.eof THEN [s |-> s, tok |-> None]
    ELSE LET r == scan_token(s)
         IN  IF r.tok # None THEN [s |-> r.s, tok |-> r.tok]
             ELSE [s |-> r.s, tok |-> Token(r.s.line, "Eof", << >>)]

\* Iterator::next for Scanner: [s, tok]
next(s) ==
    IF s.eof THEN [s |-> s, tok |-> None]
    ELSE LET r == scan_token(s)
         IN  IF r.tok # None THEN [s |-> r.s, tok |-> r.tok]
             ELSE [s |-> [r.s EXCEPT !.eof = TRUE],
                   tok |-> Token(r.s.line, "Eof", << >>)]

(***************************************************************************)
(* SpecScan: a Scanner over a source text, next() called again and again.  *)
(***************************************************************************)
MaxSrcLen == 3      \* characters of a source text
MaxIdleCalls == 2   \* calls of next() made after it returned None

Sources == SeqsUpTo(Alphabet, MaxSrcLen)

ScanInit ==
    /\ \E source \in Sources : sc = NewScanner(source)
    /\ emitted = << >>
    /\ parser = ParkedParser
    /\ resolver = ParkedResolver
    /\ evaluation = ParkedEvaluation
    /\ session = ParkedSession
    /\ env = ParkedEnv
    /\ lastOp = ParkedOp
    /\ lox = ParkedLox

IdleCalls == Cardinality({i \in 1..Len(emitted) : emitted[i].ret = None})

\* One call of next(); its return value is recorded with the scanner's
\* position and eof flag at the time of the call, and with start, current
\* and panic state of the scanner after it
ScanNext ==
    /\ IdleCalls < MaxIdleCalls
    /\ ~scan_token(sc).panicked
    /\ LET r == next(sc)
       IN  /\ sc' = r.s
           /\ emitted' = Append(emitted, [ret |-> r.tok, pos |-> sc.current,
                                          eofBefore |-> sc.eof,
                                          start |-> r.s.start,
                                          end |-> r.s.current])
    /\ UNCHANGED <<env, lastOp, lox, parser, resolver, evaluation, session>>

SpecScan == ScanInit /\ [][ScanNext]_vars

\* C10: the values next() returns are tokens, then exactly one Eof, then
\* nothing: a call made with every character consumed and no Eof returned yet
\* returns Eof, a call after the Eof returns None, Eof is returned only with
\* the input exhausted, and every token before the Eof consumed a character
\* (so the sequence is finite).
C10_OneEofThenNone ==
    /\ \A i \in 1..Len(emitted) :
           /\ emitted[i].eofBefore => emitted[i].ret = None
           /\ ~emitted[i].eofBefore => emitted[i].ret # None
           /\ (~emitted[i].eofBefore /\ emitted[i].pos = Len(sc.source))
                  => emitted[i].ret.typ = "Eof"
           /\ emitted[i].eofBefore <=>
                  \E j \in 1..(i - 1) : emitted[j].ret.typ = "Eof"
           /\ emitted[i].ret.typ \notin {"Eof", "None"} =>
                  /\ i = Len(emitted) \/ emitted[i + 1].pos > emitted[i].pos
                  /\ i < Len(emitted) \/ sc.current > emitted[i].pos
    /\ Cardinality({i \in 1..Len(emitted) : emitted[i].ret.typ = "Eof"}) <= 1
    /\ sc.eof <=> \E i \in 1..Len(emitted) : emitted[i].ret.typ = "Eof"
    /\ sc.eof => sc.current = Len(sc.source)
    /\ Cardinality({i \in 1..Len(emitted) : emitted[i].ret.typ \notin {"Eof", "None"}})
           <= Len(sc.source)

\* A token, then the Eof of a source that ends in whitespace, then None
C10_Witness ==
    /\ Len(emitted) >= 3
    /\ emitted[Len(emitted)].ret = None
    /\ emitted[Len(emitted) - 1].ret.typ = "Eof"
    /\ emitted[Len(emitted) - 1].pos < Len(sc.source)
    /\ emitted[1].ret.typ \notin {"Eof", "None"}

(***************************************************************************)
(* Properties of the token sequence                                        *)
(***************************************************************************)
Src == sc.source
\* The tokens returned so far, without the calls that returned nothing
Returned == {i \in 1..Len(emitted) : emitted[i].ret # None}
\* The number of LF characters among the first n characters of the source
LFs(source, n) == Cardinality({k \in 1..n : source[k] = LF})

\* The source without its line comments: outside a string literal, the
\* characters from // up to (not including) the next LF are dropped
RECURSIVE StripComments(_, _, _, _)
StripComments(source, k, inString, inComment) ==
    IF k > Len(source) THEN << >>
    ELSE LET ch == source[k]
         IN  IF inComment
             THEN IF ch = LF THEN <<ch>> \o StripComments(source, k + 1, FALSE, FALSE)
                  ELSE StripComments(source, k + 1, FALSE, TRUE)
             ELSE IF inString
             THEN <<ch>> \o StripComments(source, k + 1, ch # QUOTE, FALSE)
             ELSE IF ch = "/" /\ k < Len(source) /\ source[k + 1] = "/"
             THEN StripComments(source, k + 2, FALSE, TRUE)
             ELSE <<ch>> \o StripComments(source, k + 1, ch = QUOTE, FALSE)

\* Scanner::new(source).collect(), as kinds and lexemes
RECURSIVE Collect(_)
Collect(s) ==
    LET r == next(s)
    IN  IF r.tok = None THEN << >>
        ELSE <<[typ |-> r.tok.typ, lexeme |-> r.tok.lexeme]>> \o Collect(r.s)

EmittedTokens ==
    [i \in 1..Cardinality(Returned) |->
        [typ |-> emitted[i].ret.typ, lexeme |-> emitted[i].ret.lexeme]]

\* C11: line comments produce no token: no call of next returns a Comment
\* token, and once the input is exhausted the tokens returned are those of
\* the source with its line comments removed.
C11_CommentsYieldNoToken ==
    /\ \A i \in Returned : emitted[i].ret.typ # "Comment"
    /\ sc.eof => EmittedTokens = Collect(NewScanner(StripComments(Src, 1, FALSE, FALSE)))

\* The characters that start a token of a known kind
TokenStarts ==
    (DOMAIN SingleCharTokens) \cup {"!", "=", "<", ">", "/", QUOTE} \cup Digits \cup Letters

\* C12: scanning never panics (the panic arm of the string literal is never
\* taken), every lexeme is a slice inside the source, a character that starts
\* no token yields one ErrorUnknownToken whose lexeme is that character, and
\* the next call goes on right after it.
C12_NoPanicUnknownCharIsToken ==
    /\ ~sc.eof => ~scan_token(sc).panicked
    /\ \A i \in Returned :
           LET e == emitted[i]
               lexeme == e.ret.lexeme
           IN  /\ 0 <= e.start /\ e.start <= e.end /\ e.end <= Len(Src)
               /\ e.start + Len(lexeme) <= Len(Src)
               /\ lexeme = SubSeq(Src, e.start + 1, e.start + Len(lexeme))
               /\ e.ret.typ = "ErrorUnknownToken" =>
                      /\ e.end = e.start + 1
                      /\ lexeme = <<Src[e.end]>>
                      /\ Src[e.end] \notin TokenStarts
               /\ (/\ e.ret.typ \notin {"Eof", "String_", "ErrorUnclosedString"}
                   /\ Src[e.start + 1] \notin TokenStarts)
                      => e.ret.typ = "ErrorUnknownToken"
               /\ i < Len(emitted) => emitted[i + 1].pos = e.end

\* An unknown character between two tokens, and the end of input after them
C12_Witness ==
    /\ sc.eof
    /\ Len(emitted) >= 4
    /\ emitted[1].ret.typ = "Number"
    /\ emitted[2].ret.typ = "ErrorUnknownToken"
    /\ emitted[3].ret.typ = "Identifier"
    /\ emitted[4].ret.typ = "Eof"

\* C13: a string literal still open at the end of input yields one
\* ErrorUnclosedString token: its lexeme is the text from after the opening
\* quote to the end of input, its line is the line the input ended on, the
\* next token is Eof; a String_ token is returned only for a closed literal.
C13_UnclosedStringToken ==
    \A i \in Returned :
        LET e == emitted[i]
        IN  /\ e.ret.typ = "ErrorUnclosedString" =>
                   /\ e.start >= 1 /\ Src[e.start] = QUOTE
                   /\ e.end = Len(Src)
                   /\ e.ret.lexeme = SubSeq(Src, e.start + 1, Len(Src))
                   /\ \A k \in (e.start + 1)..Len(Src) : Src[k] # QUOTE
                   /\ e.ret.line = 1 + LFs(Src, Len(Src))
                   /\ i < Len(emitted) => emitted[i + 1].ret.typ = "Eof"
            /\ e.ret.typ = "String_" =>
                   /\ e.start >= 1 /\ Src[e.start] = QUOTE
                   /\ Src[e.end] = QUOTE /\ e.end > e.start

\* An unclosed literal that runs over a line end, then Eof
C13_Witness ==
    /\ Len(emitted) = 2
    /\ emitted[1].ret.typ = "ErrorUnclosedString"
    /\ emitted[1].ret.line = 2
    /\ Len(emitted[1].ret.lexeme) = 2
    /\ emitted[2].ret.typ = "Eof"

\* C14 as stated: every token carries the value of the line counter at the
\* end of the token, 1 plus the number of LF consumed up to there.
C14_LineAtTokenEnd ==
    \A i \in Returned : emitted[i].ret.line = 1 + LFs(Src, emitted[i].end)

\* C14: every token but a closed string literal carries the value of the line
\* counter at the end of the token, 1 plus the number of LF consumed up to
\* there; a closed string literal carries the line of its opening quote.
C14_LineAtTokenEndOrStringStart ==
    \A i \in Returned :
        LET e == emitted[i]
        IN  IF e.ret.typ = "String_"
            THEN e.ret.line = 1 + LFs(Src, e.start)
            ELSE e.ret.line = 1 + LFs(Src, e.end)

\* A closed string literal that holds a line end, and the Eof after it
C14_Witness ==
    /\ Len(emitted) = 2
    /\ emitted[1].ret.typ = "String_"
    /\ emitted[1].ret.lexeme = <<LF>>
    /\ emitted[1].ret.line = 1
    /\ emitted[2].ret.typ = "Eof"
    /\ emitted[2].ret.line = 2

(***************************************************************************)
(* Parser (parse/parser.rs, parse/error.rs).  Peekable<Scanner> is the     *)
(* sequence of the tokens the scanner yields and the number of them taken: *)
(*   p = [tokens, pos, log]                                                *)
(* log is a history of the calls of advance_expect and of the assignments  *)
(* parsed.  A parsing function returns Ok(value) or Err(error) with the    *)
(* parser it leaves behind.                                                *)
(***************************************************************************)
MaxArgs == 255      \* the cap on the arguments of a call
MaxParams == 255    \* the cap on the parameters of a function

\* ParseResult<T>, with the parser after the call
POk(v, p) == [ok |-> TRUE, val |-> v, err |-> NoErr, p |-> p]
PErr(e, p) == [ok |-> FALSE, val |-> NoExpr, err |-> e, p |-> p]
PLogged(r, e) == [r EXCEPT !.p.log = Append(@, e)]

\* ParseError::UnexpectedEnd
UnexpectedEnd(expected) == [kind |-> "UnexpectedEnd", expected |-> expected]
\* ParseError::UnexpectedToken
UnexpectedToken(actual, line, lexeme, expected) ==
    [kind |-> "UnexpectedToken", actual |-> actual, line |-> line,
     lexeme |-> lexeme, expected |-> expected]
\* ParseError::InvalidAssignment
InvalidAssignment(line) == [kind |-> "InvalidAssignment", line |-> line]
\* ParseError::TooManyArguments
TooManyArguments(line) == [kind |-> "TooManyArguments", line |-> line]
\* ParseError::end
end(msg) == UnexpectedEnd(msg)
\* ParseError::wrong_token
wrong_token(token, msg) == UnexpectedToken(token.typ, token.line, token.lexeme, msg)

\* One call of next() on it = [s, tokens]: the token returned is kept
ScanOne(it) ==
    LET r == next(it.s)
    IN  IF r.tok = None THEN it ELSE [s |-> r.s, tokens |-> Append(it.tokens, r.tok)]

\* n calls of next(), made by halves to keep the evaluation shallow
RECURSIVE ScanMany(_, _)
ScanMany(it, n) ==
    IF it.s.eof THEN it
    ELSE IF n <= 1 THEN ScanOne(it)
    ELSE ScanMany(ScanMany(it, n \div 2), n - (n \div 2))

\* Scanner::new(source) as an iterator: every token next() returns.  Every
\* token but Eof takes a character, so Len(source) + 1 calls reach the end.
ScanAll(s) == ScanMany([s |-> s, tokens |-> << >>], Len(s.source) + 1).tokens

\* Parser::new
NewParser(scanner) == [tokens |-> ScanAll(scanner), pos |-> 0, log |-> << >>]

\* Parser::peek: the next token, None when the scanner is exhausted
parser_peek(p) == IF p.pos < Len(p.tokens) THEN p.tokens[p.pos + 1] ELSE None

\* Parser::peek_type ("None" for None)
peek_type(p) == parser_peek(p).typ

\* Parser::advance: [p, tok]
parser_advance(p) ==
    [p |-> IF p.pos < Len(p.tokens) THEN [p EXCEPT !.pos = @ + 1] ELSE p,
     tok |-> parser_peek(p)]

\* The history entry of one call of advance_expect
Expected(p, message, r) ==
    [ev |-> "expect", message |-> message, before |-> p.pos, after |-> r.p.pos,
     next |-> parser_peek(p), ok |-> r.ok, err |-> r.err]

\* A variant of advance_expect that takes the token before it looks at it
advance_expect_taking_first(p, message, pred) ==
    LET a == parser_advance(p)
        r == IF a.tok = None THEN PErr(end(message), a.p)
             ELSE IF a.tok.typ \in pred THEN POk(a.tok, a.p)
             ELSE PErr(wrong_token(a.tok, message), a.p)
    IN  PLogged(r, Expected(p, message, r))

\* Parser::advance_expect; pred is the set of token kinds the predicate accepts
advance_expect(p, message, pred) ==
    LET token == parser_peek(p)
        r == IF token = None THEN PErr(end(message), p)
             ELSE IF token.typ \in pred THEN POk(parser_advance(p).tok, parser_advance(p).p)
             ELSE PErr(wrong_token(token, message), p)
    IN  PLogged(r, Expected(p, message, r))

\* Parser::advance_any_of: [p, tok], tok = None when nothing was taken
advance_any_of(p, typs) ==
    IF parser_peek(p) # None /\ parser_peek(p).typ \in typs THEN parser_advance(p)
    ELSE [p |-> p, tok |-> None]

\* Parser::advance_only
advance_only(p, typ) ==
    IF parser_peek(p) # None /\ parser_peek(p).typ = typ THEN parser_advance(p)
    ELSE [p |-> p, tok |-> None]

\* Parser::match_next: [p, hit]
parser_match_next(p, typ) ==
    LET a == advance_only(p, typ)
    IN  [p |-> a.p, hit |-> a.tok # None]

\* Parser::consume; the message is format!("token of type {typ:?}")
consume(p, typ) == advance_expect(p, <<"token of type", typ>>, {typ})

\* Parser::is_done
is_done(p) == peek_type(p) \in {"None", "Eof"}

\* str::parse::<f64> on the lexeme of a Number token without a fraction
RECURSIVE parse_number(_)
parse_number(lexeme) ==
    IF lexeme = << >> THEN 0
    ELSE LET d == lexeme[Len(lexeme)]
             v == CHOOSE n \in 0..9 :
                      <<"0", "1", "2", "3", "4", "5", "6", "7", "8", "9">>[n + 1] = d
         IN  10 * parse_number(SubSeq(lexeme, 1, Len(lexeme) - 1)) + v

primary_types == {"Nil", "False", "True", "Number", "String_", "Identifier", "LeftParen"}

\* Expr::binary on a left operand and the result of parsing the right one
binary_with(left, op, r) ==
    IF r.ok THEN POk(Binary(left, op, r.val), r.p) ELSE r

RECURSIVE parse_expression(_), assignment(_), assignment_not_nesting(_), or(_), term_fold(_, _),
          or_loop(_, _), and(_), and_loop(_, _), equality(_), comparison(_),
          comparison_chaining(_), comparison_chain(_, _), term(_), factor(_),
          parse_unary(_), parse_call(_), call_loop(_, _), finish_call(_, _),
          finish_call_one_more(_), finish_call_next(_), finish_call_run(_, _),
          finish_call_args(_, _), primary(_)

\* Parser::expression
parse_expression(p) == assignment(p)

\* The history entry of one = taken by assignment: the expression to its
\* left, the = token and its place, what parsing its right side gave, and
\* what assignment returns
Assigned(expr, token, value, r) ==
    [ev |-> "assign", at |-> expr.p.pos, equal |-> token, target |-> expr.val,
     valueOk |-> value.ok, value |-> value.val, valueErr |-> value.err,
     ok |-> r.ok, val |-> r.val, err |-> r.err]

\* The return of Parser::assignment once the value is parsed
assignment_result(expr, token, value) ==
    LET line == token.line
        r == IF ~value.ok THEN value
             ELSE IF expr.val.k = "Variable"
             THEN POk(AssignE(expr.val.name, value.val), value.p)
             ELSE PErr(InvalidAssignment(line), value.p)
    IN  PLogged(r, Assigned(expr, token, value, r))

\* A variant of assignment whose right side is no assignment
assignment_not_nesting(p) ==
    Try(or(p), LAMBDA expr :
        IF advance_only(expr.p, "Equal").tok = None THEN expr
        ELSE assignment_result(expr, advance_only(expr.p, "Equal").tok,
                               or(advance_only(expr.p, "Equal").p)))

\* Parser::assignment
assignment(p) ==
    Try(or(p), LAMBDA expr :
        IF advance_only(expr.p, "Equal").tok = None THEN expr
        ELSE assignment_result(expr, advance_only(expr.p, "Equal").tok,
                               assignment(advance_only(expr.p, "Equal").p)))

\* Parser::or
or(p) == Try(and(p), LAMBDA expr : or_loop(expr.p, expr.val))

\* the while loop of Parser::or
or_loop(p, expr) ==
    IF ~parser_match_next(p, "Or").hit THEN POk(expr, p)
    ELSE Try(or(parser_match_next(p, "Or").p),
             LAMBDA r : or_loop(r.p, Logical(expr, "Or", r.val)))

\* Parser::and
and(p) == Try(equality(p), LAMBDA expr : and_loop(expr.p, expr.val))

\* the while loop of Parser::and
and_loop(p, expr) ==
    IF ~parser_match_next(p, "And").hit THEN POk(expr, p)
    ELSE Try(and(parser_match_next(p, "And").p),
             LAMBDA r : and_loop(r.p, Logical(expr, "And", r.val)))

\* Parser::equality
equality(p) ==
    Try(comparison(p), LAMBDA left :
        IF parser_match_next(left.p, "BangEqual").hit
        THEN binary_with(left.val, "NotEqual",
                         comparison(parser_match_next(left.p, "BangEqual").p))
        ELSE IF parser_match_next(left.p, "EqualEqual").hit
        THEN binary_with(left.val, "Equal",
                         comparison(parser_match_next(left.p, "EqualEqual").p))
        ELSE left)

\* the loop of comparison_chaining
comparison_chain(p, left) ==
    IF advance_any_of(p, {"Greater", "GreaterEqual", "Less", "LessEqual"}).tok = None
    THEN POk(left, p)
    ELSE With(advance_any_of(p, {"Greater", "GreaterEqual", "Less", "LessEqual"}),
              LAMBDA t :
                  Try(term(t.p), LAMBDA right :
                      comparison_chain(right.p, Binary(left, t.tok.typ, right.val))))

\* A variant of comparison that takes any number of operators
comparison_chaining(p) ==
    Try(term(p), LAMBDA left : comparison_chain(left.p, left.val))

\* Parser::comparison
comparison(p) ==
    Try(term(p), LAMBDA left :
        IF parser_match_next(left.p, "Greater").hit
        THEN binary_with(left.val, "Greater",
                         term(parser_match_next(left.p, "Greater").p))
        ELSE IF parser_match_next(left.p, "GreaterEqual").hit
        THEN binary_with(left.val, "GreaterEqual",
                         term(parser_match_next(left.p, "GreaterEqual").p))
        ELSE IF parser_match_next(left.p, "Less").hit
        THEN binary_with(left.val, "Less",
                         term(parser_match_next(left.p, "Less").p))
        ELSE IF parser_match_next(left.p, "LessEqual").hit
        THEN binary_with(left.val, "LessEqual",
                         term(parser_match_next(left.p, "LessEqual").p))
        ELSE left)

\* the loop of term_folding_left
term_fold(p, left) ==
    IF advance_any_of(p, {"Minus", "Plus"}).tok = None
    THEN POk(left, p)
    ELSE With(advance_any_of(p, {"Minus", "Plus"}),
              LAMBDA t :
                  Try(factor(t.p), LAMBDA right :
                      term_fold(right.p,
                                Binary(left, IF t.tok.typ = "Minus" THEN "Sub" ELSE "Add",
                                       right.val))))

\* A variant of term that folds a chain to the left, as a loop would
term_folding_left(p) ==
    Try(factor(p), LAMBDA left : term_fold(left.p, left.val))

\* Parser::term
term(p) ==
    Try(factor(p), LAMBDA left :
        IF parser_match_next(left.p, "Minus").hit
        THEN binary_with(left.val, "Sub", term(parser_match_next(left.p, "Minus").p))
        ELSE IF parser_match_next(left.p, "Plus").hit
        THEN binary_with(left.val, "Add", term(parser_match_next(left.p, "Plus").p))
        ELSE left)

\* Parser::factor
factor(p) ==
    Try(parse_unary(p), LAMBDA left :
        IF parser_match_next(left.p, "Slash").hit
        THEN binary_with(left.val, "Div", factor(parser_match_next(left.p, "Slash").p))
        ELSE IF parser_match_next(left.p, "Star").hit
        THEN binary_with(left.val, "Mult", factor(parser_match_next(left.p, "Star").p))
        ELSE left)

\* Parser::unary
parse_unary(p) ==
    IF parser_match_next(p, "Bang").hit
    THEN Try(parse_unary(parser_match_next(p, "Bang").p),
             LAMBDA r : POk(Unary("Not", r.val), r.p))
    ELSE IF parser_match_next(p, "Minus").hit
    THEN Try(parse_unary(parser_match_next(p, "Minus").p),
             LAMBDA r : POk(Unary("Minus", r.val), r.p))
    ELSE parse_call(p)

\* Parser::call
parse_call(p) == Try(primary(p), LAMBDA expr : call_loop(expr.p, expr.val))

\* the while loop of Parser::call
call_loop(p, expr) ==
    IF ~parser_match_next(p, "LeftParen").hit THEN POk(expr, p)
    ELSE Try(finish_call(parser_match_next(p, "LeftParen").p, expr),
             LAMBDA r : call_loop(r.p, r.val))

\* A variant of finish_call_next that lets one more argument through
finish_call_one_more(l) ==
    LET comma == advance_only(l.r.p, "Comma")
    IN  IF ~l.going THEN l
        ELSE IF comma.tok = None THEN [l EXCEPT !.going = FALSE]
        ELSE IF Len(l.r.val) > MaxArgs
        THEN [r |-> PErr(TooManyArguments(comma.tok.line), comma.p), going |-> FALSE]
        ELSE With(parse_expression(comma.p), LAMBDA a :
                 IF ~a.ok THEN [r |-> a, going |-> FALSE]
                 ELSE [r |-> POk(Append(l.r.val, a.val), a.p), going |-> TRUE])

\* One iteration of the while loop of Parser::finish_call on l = [r, going]:
\* r is Ok(args) with the parser, going is whether the loop is still running
finish_call_next(l) ==
    LET comma == advance_only(l.r.p, "Comma")
    IN  IF ~l.going THEN l
        ELSE IF comma.tok = None THEN [l EXCEPT !.going = FALSE]
        ELSE IF Len(l.r.val) >= MaxArgs
        THEN [r |-> PErr(TooManyArguments(comma.tok.line), comma.p), going |-> FALSE]
        ELSE With(parse_expression(comma.p), LAMBDA a :
                 IF ~a.ok THEN [r |-> a, going |-> FALSE]
                 ELSE [r |-> POk(Append(l.r.val, a.val), a.p), going |-> TRUE])

\* n iterations of the loop, made by halves to keep the evaluation shallow
finish_call_run(l, n) ==
    IF ~l.going THEN l
    ELSE IF n <= 1 THEN finish_call_next(l)
    ELSE finish_call_run(finish_call_run(l, n \div 2), n - (n \div 2))

\* the while loop of Parser::finish_call.  Every iteration that goes on has
\* taken a comma, so it ends within as many iterations as tokens are left;
\* a loop still going then would never end: Diverged.
finish_call_args(p, args) ==
    With(finish_call_run([r |-> POk(args, p), going |-> TRUE],
                         Len(p.tokens) - p.pos + 1),
         LAMBDA l : IF l.going THEN PErr(Diverged, l.r.p) ELSE l.r)

\* Parser::finish_call
finish_call(p, callee) ==
    IF parser_match_next(p, "RightParen").hit
    THEN POk(Call(callee, << >>), parser_match_next(p, "RightParen").p)
    ELSE Try(parse_expression(p), LAMBDA first :
         Try(finish_call_args(first.p, <<first.val>>), LAMBDA args :
         Try(consume(args.p, "RightParen"), LAMBDA c :
             POk(Call(callee, args.val), c.p))))

\* Parser::primary
primary(p) ==
    Try(advance_expect(p, "primary expression", primary_types), LAMBDA token :
        IF token.val.typ = "Nil" THEN POk(Literal(Nil), token.p)
        ELSE IF token.val.typ = "False" THEN POk(Literal(Bool(FALSE)), token.p)
        ELSE IF token.val.typ = "True" THEN POk(Literal(Bool(TRUE)), token.p)
        ELSE IF token.val.typ = "Number"
        THEN POk(Literal(Number(parse_number(token.val.lexeme))), token.p)
        ELSE IF token.val.typ = "String_" THEN POk(Literal(Str(token.val.lexeme)), token.p)
        ELSE IF token.val.typ = "LeftParen"
        THEN Try(parse_expression(token.p), LAMBDA expr :
             Try(consume(expr.p, "RightParen"), LAMBDA c :
                 POk(Grouping(expr.val), c.p)))
        ELSE IF token.val.typ = "Identifier"
        THEN POk(Variable(token.val.lexeme), token.p)
        ELSE PErr(wrong_token(token.val, "expression"), token.p))

\* Parser::expr_stmt
expr_stmt(p) ==
    Try(parse_expression(p), LAMBDA expr :
    Try(consume(expr.p, "Semicolon"), LAMBDA c :
        POk(ExpressionS(expr.val), c.p)))

\* Parser::var_decl
var_decl(p) ==
    Try(consume(p, "Identifier"), LAMBDA name :
    Try(IF parser_match_next(name.p, "Equal").hit
        THEN parse_expression(parser_match_next(name.p, "Equal").p)
        ELSE POk(NoExpr, name.p), LAMBDA initializer :
    Try(consume(initializer.p, "Semicolon"), LAMBDA c :
        POk(VarS(name.val.lexeme, initializer.val), c.p))))

RECURSIVE declaration(_), func_decl(_), func_decl_params(_, _), parse_statement(_),
          statement_block(_, _), for_stmt(_), block_stmts(_), block_stmts_loop(_, _),
          block_stmts_dropping_errors(_), dropping_errors_loop(_, _)

\* Parser::declaration
declaration(p) ==
    IF parser_match_next(p, "Var").hit THEN var_decl(parser_match_next(p, "Var").p)
    ELSE IF parser_match_next(p, "Fun").hit THEN func_decl(parser_match_next(p, "Fun").p)
    ELSE parse_statement(p)

\* the while loop of Parser::func_decl
func_decl_params(p, params) ==
    LET token == advance_only(p, "Comma")
    IN  IF token.tok = None THEN POk(params, p)
        ELSE IF Len(params) >= MaxParams
        THEN PErr(TooManyArguments(token.tok.line), token.p)
        ELSE Try(consume(token.p, "Identifier"), LAMBDA name :
                 func_decl_params(name.p, Append(params, name.val.lexeme)))

\* Parser::func_decl
func_decl(p) ==
    Try(consume(p, "Identifier"), LAMBDA ident :
    Try(consume(ident.p, "LeftParen"), LAMBDA open :
    Try(IF parser_match_next(open.p, "RightParen").hit
        THEN POk(<< >>, parser_match_next(open.p, "RightParen").p)
        ELSE Try(consume(open.p, "Identifier"), LAMBDA first :
             Try(func_decl_params(first.p, <<first.val.lexeme>>), LAMBDA more :
             Try(consume(more.p, "RightParen"), LAMBDA close :
                 POk(more.val, close.p)))), LAMBDA params :
    Try(consume(params.p, "LeftBrace"), LAMBDA brace :
    Try(block_stmts(brace.p), LAMBDA body :
        POk(FunctionS(ident.val.lexeme, params.val, body.val), body.p))))))

\* the while loop of the LeftBrace arm of Parser::statement.  An iteration
\* that succeeds without taking a token would repeat for ever: Diverged.
statement_block(p, statements) ==
    IF peek_type(p) = "RightBrace" THEN POk(statements, p)
    ELSE Try(declaration(p), LAMBDA d :
             IF d.p.pos = p.pos THEN PErr(Diverged, d.p)
             ELSE statement_block(d.p, Append(statements, d.val)))

\* A variant of for_desugar that always makes the two blocks
for_desugar_always_blocks(initializer, condition, increment, body) ==
    BlockS((IF initializer # NoStmt THEN <<initializer>> ELSE << >>) \o
           <<WhileS(IF condition # NoExpr THEN condition ELSE Literal(Bool(TRUE)),
                    BlockS(<<body>> \o
                           (IF increment # NoExpr THEN <<ExpressionS(increment)>>
                            ELSE << >>)))>>)

\* the For arm of Parser::statement: the statement built from the parts, of
\* which initializer, condition and increment can be None
for_desugar(initializer, condition, increment, body) ==
    LET body1 == IF increment # NoExpr
                 THEN BlockS(<<body, ExpressionS(increment)>>)
                 ELSE body
        body2 == WhileS(IF condition # NoExpr THEN condition ELSE Literal(Bool(TRUE)),
                        body1)
    IN  IF initializer # NoStmt THEN BlockS(<<initializer, body2>>) ELSE body2

\* the For arm of Parser::statement, after the `for` token
for_stmt(p) ==
    Try(consume(p, "LeftParen"), LAMBDA open :
    Try(IF parser_match_next(open.p, "Semicolon").hit
        THEN POk(NoStmt, parser_match_next(open.p, "Semicolon").p)
        ELSE IF parser_match_next(open.p, "Var").hit
        THEN var_decl(parser_match_next(open.p, "Var").p)
        ELSE expr_stmt(open.p), LAMBDA initializer :
    Try(IF parser_match_next(initializer.p, "Semicolon").hit
        THEN POk(NoExpr, parser_match_next(initializer.p, "Semicolon").p)
        ELSE Try(parse_expression(initializer.p), LAMBDA expr :
             Try(consume(expr.p, "Semicolon"), LAMBDA c :
                 POk(expr.val, c.p))), LAMBDA condition :
    Try(IF parser_match_next(condition.p, "RightParen").hit
        THEN POk(NoExpr, parser_match_next(condition.p, "RightParen").p)
        ELSE Try(parse_expression(condition.p), LAMBDA expr :
             Try(consume(expr.p, "RightParen"), LAMBDA c :
                 POk(expr.val, c.p))), LAMBDA increment :
    Try(parse_statement(increment.p), LAMBDA body :
        POk(for_desugar(initializer.val, condition.val, increment.val, body.val),
            body.p))))))

\* Parser::statement
parse_statement(p) ==
    With(advance_any_of(p, {"Print", "LeftBrace", "If", "While", "For", "Return"}),
         LAMBDA t :
    IF t.tok.typ = "Print"
    THEN Try(parse_expression(t.p), LAMBDA value :
         Try(consume(value.p, "Semicolon"), LAMBDA c :
             POk(PrintS(value.val), c.p)))
    ELSE IF t.tok.typ = "LeftBrace"
    THEN Try(statement_block(t.p, << >>), LAMBDA statements :
         Try(consume(statements.p, "RightBrace"), LAMBDA c :
             POk(BlockS(statements.val), c.p)))
    ELSE IF t.tok.typ = "If"
    THEN Try(consume(t.p, "LeftParen"), LAMBDA open :
         Try(parse_expression(open.p), LAMBDA condition :
         Try(consume(condition.p, "RightParen"), LAMBDA close :
         Try(parse_statement(close.p), LAMBDA then_branch :
         Try(IF parser_match_next(then_branch.p, "Else").hit
             THEN parse_statement(parser_match_next(then_branch.p, "Else").p)
             ELSE POk(NoStmt, then_branch.p), LAMBDA else_branch :
             POk(IfS(condition.val, then_branch.val, else_branch.val),
                 else_branch.p))))))
    ELSE IF t.tok.typ = "While"
    THEN Try(consume(t.p, "LeftParen"), LAMBDA open :
         Try(parse_expression(open.p), LAMBDA condition :
         Try(consume(condition.p, "RightParen"), LAMBDA close :
         Try(parse_statement(close.p), LAMBDA body :
             POk(WhileS(condition.val, body.val), body.p)))))
    ELSE IF t.tok.typ = "For" THEN for_stmt(t.p)
    ELSE IF t.tok.typ = "Return"
    THEN Try(IF peek_type(t.p) = "Semicolon" THEN POk(NoExpr, t.p)
             ELSE parse_expression(t.p), LAMBDA expr :
         Try(consume(expr.p, "Semicolon"), LAMBDA c :
             POk(ReturnS(expr.val), c.p)))
    ELSE expr_stmt(p))

\* A loop that goes on after a declaration failed
dropping_errors_loop(p, statements) ==
    IF peek_type(p) = "RightBrace" THEN POk(statements, p)
    ELSE With(declaration(p), LAMBDA d :
              IF d.p.pos = p.pos THEN PErr(Diverged, d.p)
              ELSE dropping_errors_loop(d.p, IF d.ok THEN Append(statements, d.val)
                                             ELSE statements))

\* A variant of block_stmts that drops the errors of the declarations
block_stmts_dropping_errors(p) ==
    Try(dropping_errors_loop(p, << >>), LAMBDA statements :
    Try(consume(statements.p, "RightBrace"), LAMBDA c :
        POk(statements.val, c.p)))

\* the while loop of Parser::block_stmts.  An iteration that succeeds
\* without taking a token would repeat for ever: Diverged.
block_stmts_loop(p, statements) ==
    IF peek_type(p) = "RightBrace" THEN POk(statements, p)
    ELSE Try(declaration(p), LAMBDA d :
             IF d.p.pos = p.pos THEN PErr(Diverged, d.p)
             ELSE block_stmts_loop(d.p, Append(statements, d.val)))

\* Parser::block_stmts
block_stmts(p) ==
    Try(block_stmts_loop(p, << >>), LAMBDA statements :
    Try(consume(statements.p, "RightBrace"), LAMBDA c :
        POk(statements.val, c.p)))

\* Parser::parse from a parser p with the statements pushed so far
RECURSIVE parse_from(_, _)
parse_from(p, statements) ==
    IF is_done(p) THEN POk(statements, p)
    ELSE Try(declaration(p), LAMBDA d :
             IF d.p.pos = p.pos THEN PErr(Diverged, d.p)
             ELSE parse_from(d.p, Append(statements, d.val)))

\* Parser::parse
parse(p) == parse_from(p, << >>)

(***************************************************************************)
(* SpecParse: Parser::new(Scanner::new(source)).parse(), one iteration of  *)
(* the loop of parse per step.                                             *)
(***************************************************************************)
MaxWords == 3       \* words of a source text made of Vocabulary

Vocabulary ==
    {<<"1">>, <<"a">>, <<"<">>, <<"=", "=">>, <<"=">>, <<";">>, <<"(">>, <<")">>,
     <<"{">>, <<"}">>, <<"p", "r", "i", "n", "t">>}

\* The words of a text, one space between two of them
RECURSIVE Join(_)
Join(words) ==
    IF words = << >> THEN << >>
    ELSE IF Len(words) = 1 THEN words[1]
    ELSE words[1] \o <<" ">> \o Join(Tail(words))

\* A call of n arguments, a line end before every comma: f(1 LF,1 ... LF,1);
\* the k-th comma is on line k + 1
CallWithArgs(n) ==
    <<"f", "(", "1">>
        \o [i \in 1..(3 * (n - 1)) |->
               IF i % 3 = 1 THEN LF ELSE IF i % 3 = 2 THEN "," ELSE "1"]
        \o <<")", ";">>

\* The comparison and the equality operators: lexeme, token kind, BinaryOp
\* The numbers of arguments of the calls parsed
ArgCounts == {1, 2, MaxArgs, MaxArgs + 1, MaxArgs + 2}

ComparisonOps ==
    {[lexeme |-> <<">">>, typ |-> "Greater", op |-> "Greater"],
     [lexeme |-> <<">", "=">>, typ |-> "GreaterEqual", op |-> "GreaterEqual"],
     [lexeme |-> <<"<">>, typ |-> "Less", op |-> "Less"],
     [lexeme |-> <<"<", "=">>, typ |-> "LessEqual", op |-> "LessEqual"]}
EqualityOps ==
    {[lexeme |-> <<"!", "=">>, typ |-> "BangEqual", op |-> "NotEqual"],
     [lexeme |-> <<"=", "=">>, typ |-> "EqualEqual", op |-> "Equal"]}

\* 1 o1 2 LF o2 3;
Chained(o1, o2) ==
    <<"1">> \o o1.lexeme \o <<"2", LF>> \o o2.lexeme \o <<"3", ";">>
\* 1 c1 2 e 3 c2 4;
OnEachSide(c1, e, c2) ==
    <<"1">> \o c1.lexeme \o <<"2">> \o e.lexeme \o <<"3">> \o c2.lexeme \o <<"4", ";">>

ComparisonSources ==
    {Chained(o1, o2) : o1 \in ComparisonOps, o2 \in ComparisonOps}
        \cup {Chained(o1, o2) : o1 \in EqualityOps, o2 \in EqualityOps}
        \cup {OnEachSide(c1, e, c2) : c1 \in ComparisonOps, e \in EqualityOps,
                                      c2 \in ComparisonOps}
        \cup {<<"(", "1", "<", "2", ")", "<", "3", ";">>}

AdditiveOps ==
    {[lexeme |-> <<"+">>, op |-> "Add"], [lexeme |-> <<"-">>, op |-> "Sub"]}
MultiplicativeOps ==
    {[lexeme |-> <<"*">>, op |-> "Mult"], [lexeme |-> <<"/">>, op |-> "Div"]}
LogicalOps ==
    {[lexeme |-> <<" ", "o", "r", " ">>, op |-> "Or"],
     [lexeme |-> <<" ", "a", "n", "d", " ">>, op |-> "And"]}

\* 1 o1 2 o2 3;
Chain3(o1, o2) ==
    <<"1">> \o o1.lexeme \o <<"2">> \o o2.lexeme \o <<"3", ";">>
\* 1 o1 2 o2 3 o3 4;
Chain4(o1, o2, o3) ==
    <<"1">> \o o1.lexeme \o <<"2">> \o o2.lexeme \o <<"3">> \o o3.lexeme \o <<"4", ";">>

\* The chains of one level: additive operators, multiplicative operators,
\* or alone, and alone
ChainLevels ==
    {AdditiveOps, MultiplicativeOps}
        \cup {{o} : o \in LogicalOps}

ChainSources ==
    UNION {{Chain3(o1, o2) : o1 \in L, o2 \in L}
               \cup {Chain4(o1, o2, o3) : o1 \in L, o2 \in L, o3 \in L} : L \in ChainLevels}
        \cup {<<"1", "+", "2", "*", "3", "+", "4", ";">>,
              <<"(", "1", "-", "2", ")", "-", "3", ";">>}

AssignmentSources ==
    {<<"a", "=", "b", "=", "a", ";">>,
     <<"1", LF, "=", LF, "2", ";">>,
     <<"(", "a", ")", "=", "1", ";">>,
     <<"a", "+", "b", LF, "=", "1", ";">>,
     <<"a", "=", "1", LF, "=", "2", ";">>,
     <<"1", LF, "=", "(", ";">>,
     <<"a", "=", LF>>,
     <<"1", "=", LF, LF, "2", "<", "3", "<", "4", ";">>}

UnclosedSources ==
    {<<"f", "u", "n", " ", "f", "(", ")", "{">>,
     <<"f", "u", "n", " ", "f", "(", "a", ",", "b", ")", "{", "p", "r", "i", "n", "t", " ",
       "a", ";">>,
     <<"f", "u", "n", " ", "f", "(", ")", "{", "{", "a", ";", "}">>,
     <<"{", "p", "r", "i", "n", "t", " ", "1", ";", "{", "a", ";">>,
     <<"f", "u", "n", " ", "f", "(", ")", "{", "a", ";", "}", "{", "}">>}

\* The parts of a for statement; an empty text is a part left out
ForInits == {<< >>, <<"v", "a", "r", " ", "i", "=", "0">>, <<"i", "=", "0">>}
ForConds == {<< >>, <<"i", "<", "2">>}
ForIncrs == {<< >>, <<"i", "=", "i", "+", "1">>}
ForBodies == {<<"p", "r", "i", "n", "t", " ", "i", ";">>,
              <<"{", "p", "r", "i", "n", "t", " ", "i", ";", "}">>}
ForParts ==
    [init : ForInits, cond : ForConds, incr : ForIncrs, body : ForBodies]

\* for (init; cond; incr) body
ForSource(f) ==
    <<"f", "o", "r", "(">> \o f.init \o <<";">> \o f.cond \o <<";">> \o f.incr
        \o <<")">> \o f.body

ParseSources ==
    {Join(ws) : ws \in SeqsUpTo(Vocabulary, MaxWords)}
        \cup ComparisonSources \cup AssignmentSources \cup UnclosedSources
        \cup ChainSources
        \cup {CallWithArgs(n) : n \in ArgCounts}
        \cup {ForSource(f) : f \in ForParts}

NoParse == [ok |-> FALSE, val |-> << >>, err |-> NoErr]

ParseInit ==
    /\ \E source \in ParseSources :
           parser = [pc |-> "parsing", source |-> source,
                     p |-> NewParser(NewScanner(source)),
                     statements |-> << >>, result |-> NoParse]
    /\ env = ParkedEnv
    /\ lastOp = ParkedOp
    /\ lox = ParkedLox
    /\ sc = ParkedScanner
    /\ emitted = << >>
    /\ resolver = ParkedResolver
    /\ evaluation = ParkedEvaluation
    /\ session = ParkedSession

\* The state after an iteration whose call of declaration() returned d
Declared(ps, d) ==
    IF ~d.ok
    THEN [ps EXCEPT !.pc = "done", !.p = d.p,
                    !.result = [ok |-> FALSE, val |-> << >>, err |-> d.err]]
    ELSE IF d.p.pos = ps.p.pos
    THEN [ps EXCEPT !.pc = "done", !.p = d.p,
                    !.result = [ok |-> FALSE, val |-> << >>, err |-> Diverged]]
    ELSE [ps EXCEPT !.p = d.p, !.statements = Append(@, d.val)]

\* One iteration of the loop of Parser::parse: the declaration is pushed, or
\* its error ends parse
ParseDeclaration ==
    /\ parser.pc = "parsing"
    /\ ~is_done(parser.p)
    /\ parser' = Declared(parser, declaration(parser.p))
    /\ UNCHANGED <<env, lastOp, lox, sc, emitted, resolver, evaluation, session>>

\* The loop of Parser::parse ends: Ok(statements)
ParseReturn ==
    /\ parser.pc = "parsing"
    /\ is_done(parser.p)
    /\ parser' = [parser EXCEPT !.pc = "done",
                                !.result = [ok |-> TRUE, val |-> parser.statements,
                                            err |-> NoErr]]
    /\ UNCHANGED <<env, lastOp, lox, sc, emitted, resolver, evaluation, session>>

ParseNext == ParseDeclaration \/ ParseReturn

SpecParse == ParseInit /\ [][ParseNext]_vars

(***************************************************************************)
(* Properties of Parser::parse                                             *)
(***************************************************************************)
ParseDone == parser.pc = "done"
ParseLog == parser.p.log
\* The result of parse() on a source text, as ok, val and err
Parsed(source) ==
    With(parse(NewParser(NewScanner(source))),
         LAMBDA r : [ok |-> r.ok, val |-> IF r.ok THEN r.val ELSE << >>, err |-> r.err])

\* C15: comparisons do not chain and equalities do not chain: 1 o1 2 o2 3;
\* with two comparison operators, or with two equality operators, fails with
\* UnexpectedToken carrying the second operator (kind, lexeme, line), found
\* where the semicolon of the statement was expected; with one comparison on
\* each side of one equality operator the statement parses to the equality of
\* the two comparisons.
C15_ComparisonsDoNotChain ==
    ParseDone =>
        /\ \A o1, o2 \in ComparisonOps \cup EqualityOps :
               ((o1 \in ComparisonOps <=> o2 \in ComparisonOps)
                    /\ parser.source = Chained(o1, o2)) =>
                   /\ ~parser.result.ok
                   /\ parser.result.err =
                          UnexpectedToken(o2.typ, 2, o2.lexeme,
                                          <<"token of type", "Semicolon">>)
        /\ \A c1, c2 \in ComparisonOps : \A e \in EqualityOps :
               parser.source = OnEachSide(c1, e, c2) =>
                   /\ parser.result.ok
                   /\ parser.result.val =
                          <<ExpressionS(
                              Binary(Binary(Literal(Number(1)), c1.op, Literal(Number(2))),
                                     e.op,
                                     Binary(Literal(Number(3)), c2.op, Literal(Number(4)))))>>

\* 1 < 2 (line end) < 3; has been parsed and failed at the second <
C15_Witness ==
    /\ ParseDone
    /\ parser.source = <<"1", "<", "2", LF, "<", "3", ";">>
    /\ parser.result.err.kind = "UnexpectedToken"
    /\ parser.result.err.actual = "Less"
    /\ parser.result.err.line = 2

\* The positions of a character in a text
Places(source, ch) == {i \in 1..Len(source) : source[i] = ch}
\* The line of the k-th ch of a text, 0 when it has fewer of them
LineOf(source, ch, k) ==
    IF Cardinality(Places(source, ch)) < k THEN 0
    ELSE LET i == CHOOSE c \in Places(source, ch) :
                      Cardinality({j \in Places(source, ch) : j <= c}) = k
         IN  1 + LFs(source, i)
\* The line of the k-th comma of a text
CommaLine(source, k) == LineOf(source, ",", k)
\* f(1, ..., 1) with n arguments
CallOf(n) == Call(Variable(<<"f">>), [i \in 1..n |-> Literal(Number(1))])

\* C16 as claimed: a call of up to 255 arguments parses, one of more fails
\* with TooManyArguments at the line of the 256th comma of the argument list.
C16_ErrorAtComma256 ==
    ParseDone =>
        \A n \in ArgCounts :
            parser.source = CallWithArgs(n) =>
                IF n <= MaxArgs
                THEN parser.result.ok /\ parser.result.val = <<ExpressionS(CallOf(n))>>
                ELSE /\ ~parser.result.ok
                     /\ parser.result.err =
                            TooManyArguments(CommaLine(parser.source, MaxArgs + 1))

\* C16: a call of up to 255 arguments parses to a Call with these arguments;
\* a call of 256 arguments or more fails with TooManyArguments at the line of
\* the 255th comma of the argument list, the comma before the 256th argument.
C16_ErrorAtComma255 ==
    ParseDone =>
        \A n \in ArgCounts :
            parser.source = CallWithArgs(n) =>
                IF n <= MaxArgs
                THEN parser.result.ok /\ parser.result.val = <<ExpressionS(CallOf(n))>>
                ELSE /\ ~parser.result.ok
                     /\ parser.result.err =
                            TooManyArguments(CommaLine(parser.source, MaxArgs))

\* A call of 256 arguments has failed at its last comma, the 255th, on line 256
C16_Witness ==
    /\ ParseDone
    /\ parser.source = CallWithArgs(MaxArgs + 1)
    /\ parser.result.err = TooManyArguments(MaxArgs + 1)
    /\ CommaLine(parser.source, MaxArgs) = MaxArgs + 1
    /\ CommaLine(parser.source, MaxArgs + 1) = 0

\* The calls of advance_expect made so far
Expects == {i \in 1..Len(ParseLog) : ParseLog[i].ev = "expect"}
\* The input has ended: what comes next is no token of the text
AtEnd(e) == e.next = None \/ e.next.typ = "Eof"

\* C17 as claimed: a call of advance_expect made when the input has ended
\* fails with UnexpectedEnd, a call that finds a token of another kind fails
\* with UnexpectedToken carrying the kind, the lexeme and the line of that
\* token, and a call that fails takes no token.
C17_EndOfInputIsUnexpectedEnd ==
    \A i \in Expects :
        LET e == ParseLog[i]
        IN  /\ AtEnd(e) => (~e.ok /\ e.err = UnexpectedEnd(e.message))
            /\ (~AtEnd(e) /\ ~e.ok) =>
                   e.err = UnexpectedToken(e.next.typ, e.next.line, e.next.lexeme,
                                            e.message)
            /\ ~e.ok => e.after = e.before

\* C17: a call of advance_expect always finds a token: when the input has
\* ended it finds the Eof token, which no call accepts or takes.  A call that
\* finds a token of another kind than expected, Eof included, fails with
\* UnexpectedToken carrying the kind, the lexeme and the line of that token;
\* UnexpectedEnd is for a token stream with nothing left, which parse never
\* sees.  A call that fails takes no token, a call that succeeds takes one.
C17_EndOfInputIsUnexpectedEof ==
    \A i \in Expects :
        LET e == ParseLog[i]
        IN  /\ e.next # None
            /\ AtEnd(e) => ~e.ok
            /\ ~e.ok =>
                   /\ e.err = UnexpectedToken(e.next.typ, e.next.line, e.next.lexeme,
                                              e.message)
                   /\ e.after = e.before
            /\ e.ok => e.after = e.before + 1
            /\ e.err.kind # "UnexpectedEnd"

\* parse has failed for a text that ends where an expression was expected
\* (on its second line), and for nothing else before it
C17_Witness ==
    /\ ParseDone
    /\ parser.result.err = UnexpectedToken("Eof", 2, << >>, "primary expression")
    /\ \E i \in Expects :
           /\ AtEnd(ParseLog[i])
           /\ ParseLog[i].before = ParseLog[i].after
           /\ ParseLog[i].before = Len(parser.p.tokens) - 1
           /\ ParseLog[i].before > 0

\* The = tokens taken by assignment so far
Assignments == {i \in 1..Len(ParseLog) : ParseLog[i].ev = "assign"}
\* Every = of the text is a token of its own
PlainEquals(source) ==
    \A i \in 1..(Len(source) - 1) :
        source[i + 1] = "=" => source[i] \notin {"=", "!", "<", ">"}
\* The number of Equal tokens among the first n tokens
EqualsUpTo(n) == Cardinality({j \in 1..n : parser.p.tokens[j].typ = "Equal"})

\* a = b = a; parses as a = (b = a)
NestsToTheRight ==
    (ParseDone /\ parser.source = <<"a", "=", "b", "=", "a", ";">>) =>
        /\ parser.result.ok
        /\ parser.result.val =
               <<ExpressionS(AssignE(<<"a">>, AssignE(<<"b">>, Variable(<<"a">>))))>>

\* C18 as claimed: a = b = a parses as a = (b = a), and an = with anything
\* but a variable to its left makes the parse fail with InvalidAssignment at
\* the line of that = token.
C18_InvalidTargetAlwaysReported ==
    /\ NestsToTheRight
    /\ \A i \in Assignments :
           LET e == ParseLog[i]
           IN  e.target.k # "Variable" =>
                   /\ ParseDone
                   /\ parser.result.err = InvalidAssignment(e.equal.line)

\* C18: a = b = a parses as a = (b = a).  The right side of an = is parsed
\* as an assignment before the left side is looked at: when it fails, its
\* error is the error of the parse; when it parses, a variable to the left
\* gives the assignment of it to that variable, and anything else makes the
\* parse fail with InvalidAssignment at the line of that = token.
C18_InvalidTargetReportedAfterValue ==
    /\ NestsToTheRight
    /\ \A i \in Assignments :
           LET e == ParseLog[i]
           IN  /\ parser.p.tokens[e.at + 1] = e.equal
               /\ e.equal.typ = "Equal"
               /\ PlainEquals(parser.source) =>
                      e.equal.line = LineOf(parser.source, "=", EqualsUpTo(e.at + 1))
               /\ ~e.valueOk => (~e.ok /\ e.err = e.valueErr)
               /\ (e.valueOk /\ e.target.k = "Variable") =>
                      (e.ok /\ e.val = AssignE(e.target.name, e.value))
               /\ (e.valueOk /\ e.target.k # "Variable") =>
                      (~e.ok /\ e.err = InvalidAssignment(e.equal.line))
               /\ ~e.ok => (ParseDone /\ parser.result.err = e.err)

\* 1 = 2; with the = on the second line has failed with InvalidAssignment
\* at line 2, after 2 was parsed
C18_Witness ==
    /\ ParseDone
    /\ parser.source = <<"1", LF, "=", LF, "2", ";">>
    /\ parser.result.err = InvalidAssignment(2)
    /\ \E i \in Assignments :
           /\ ParseLog[i].target = Literal(Number(1))
           /\ ParseLog[i].valueOk
           /\ ParseLog[i].value = Literal(Number(2))

\* The number of tokens of a kind in the text
Count(typ) ==
    Cardinality({i \in 1..Len(parser.p.tokens) : parser.p.tokens[i].typ = typ})
\* Some brace of the text is not closed before the end of the input
Unclosed == Count("LeftBrace") > Count("RightBrace")
ParseErrorKinds ==
    {"UnexpectedEnd", "UnexpectedToken", "InvalidAssignment", "TooManyArguments"}

\* The error of a parse that stopped at the Eof token: the UnexpectedToken of
\* the Eof token found there, or the error of a check made after the last
\* token was taken (the target of an assignment whose value ran to the end
\* of the input, the count of arguments after a comma that came last)
ErrorAtEof(err) ==
    \/ err.kind = "UnexpectedToken" /\ err.actual = "Eof"
    \/ /\ err.kind = "InvalidAssignment"
       /\ ParseLog # << >>
       /\ ParseLog[Len(ParseLog)].ev = "assign"
       /\ ~ParseLog[Len(ParseLog)].ok
    \/ /\ err.kind = "TooManyArguments"
       /\ parser.p.tokens[parser.p.pos].typ = "Comma"

\* C19: no loop of the parser runs for ever (Diverged), and the parse of a
\* text with a brace that is not closed ends with a ParseError; when the
\* parser got to the end of such a text, the error is the UnexpectedToken of
\* the Eof token it found there or that of a check made after the last token.
C19_UnclosedBlockIsParseError ==
    /\ parser.result.err # Diverged
    /\ parser.p.pos < Len(parser.p.tokens)
    /\ (ParseDone /\ Unclosed) =>
           /\ ~parser.result.ok
           /\ parser.result.err.kind \in ParseErrorKinds
           /\ parser.p.pos = Len(parser.p.tokens) - 1 =>
                  ErrorAtEof(parser.result.err)

\* The parse of a function whose body is not closed has ended at the end of
\* the input, where a declaration of the body was looked for
C19_Witness ==
    /\ ParseDone
    /\ Unclosed
    /\ parser.source \in UnclosedSources
    /\ parser.p.pos = Len(parser.p.tokens) - 1
    /\ parser.result.err.kind = "UnexpectedToken"
    /\ parser.result.err.expected = "primary expression"
    /\ parser.p.tokens[1].typ = "Fun"

\* The text of a part that is there, with what follows it
Present(part, after) == IF part = << >> THEN << >> ELSE part \o after
\* The condition of the while: the part, or true
CondText(f) == IF f.cond = << >> THEN <<"t", "r", "u", "e">> ELSE f.cond
\* { init; while (cond) { body incr; } }
BlockSource(f) ==
    <<"{">> \o Present(f.init, <<";">>) \o <<"w", "h", "i", "l", "e", "(">>
        \o CondText(f) \o <<")", "{">> \o f.body \o Present(f.incr, <<";">>)
        \o <<"}", "}">>
\* The same with a brace pair only around what it holds two statements of:
\* init; and the while, body and incr;
DesugaredSource(f) ==
    (IF f.init = << >> THEN << >> ELSE <<"{">> \o f.init \o <<";">>)
        \o <<"w", "h", "i", "l", "e", "(">> \o CondText(f) \o <<")">>
        \o (IF f.incr = << >> THEN f.body
            ELSE <<"{">> \o f.body \o f.incr \o <<";", "}">>)
        \o (IF f.init = << >> THEN << >> ELSE <<"}">>)

\* C20 as claimed: for (init; cond; incr) body parses to what the block
\* { init; while (cond) { body incr; } } parses to, where a part left out is
\* absent from the block and a cond left out is true.
C20_ForIsBlockAroundWhile ==
    \A f \in ForParts :
        (ParseDone /\ parser.source = ForSource(f)) =>
            /\ parser.result.ok
            /\ parser.result.val = Parsed(BlockSource(f)).val

\* C20: for (init; cond; incr) body parses to what
\* { init; while (cond) { body incr; } } parses to when init and incr are both
\* there; a cond left out is true; with incr left out the body of the while is
\* body itself and no block; with init left out the statement is the while
\* itself and no block.
C20_ForIsWhileWithBlocksAsNeeded ==
    \A f \in ForParts :
        (ParseDone /\ parser.source = ForSource(f)) =>
            /\ parser.result.ok
            /\ Parsed(DesugaredSource(f)).ok
            /\ parser.result.val = Parsed(DesugaredSource(f)).val
            /\ (f.init # << >> /\ f.incr # << >>) =>
                   parser.result.val = Parsed(BlockSource(f)).val
            /\ (f.init = << >> \/ f.incr = << >>) =>
                   parser.result.val # Parsed(BlockSource(f)).val
            /\ f.init = << >> => parser.result.val[1].k = "While"
            /\ f.cond = << >> =>
                   LET s1 == parser.result.val[1]
                       w == IF s1.k = "While" THEN s1 ELSE s1.statements[2]
                   IN  w.k = "While" /\ w.condition = Literal(Bool(TRUE))

\* for(var i=0;i<2;i=i+1)print i; has been parsed to
\* { var i = 0; while (i < 2) { print i; i = i + 1; } }
C20_Witness ==
    /\ ParseDone
    /\ parser.result.ok
    /\ parser.source =
           ForSource([init |-> <<"v", "a", "r", " ", "i", "=", "0">>,
                      cond |-> <<"i", "<", "2">>,
                      incr |-> <<"i", "=", "i", "+", "1">>,
                      body |-> <<"p", "r", "i", "n", "t", " ", "i", ";">>])
    /\ parser.result.val =
           <<BlockS(<<VarS(<<"i">>, Literal(Number(0))),
                      WhileS(Binary(Variable(<<"i">>), "Less", Literal(Number(2))),
                             BlockS(<<PrintS(Variable(<<"i">>)),
                                      ExpressionS(
                                          AssignE(<<"i">>,
                                                  Binary(Variable(<<"i">>), "Add",
                                                         Literal(Number(1)))))>>))>>)>>

\* The node of an operator: Logical for or and and, Binary for the others
Node(left, o, right) ==
    IF o \in LogicalOps THEN Logical(left, o.op, right) ELSE Binary(left, o.op, right)

\* C27: a chain of additive operators, of multiplicative operators, of or
\* operators or of and operators without parentheses parses right-nested:
\* 1 o1 2 o2 3 is the tree 1 o1 (2 o2 3) and 1 o1 2 o2 3 o3 4 is the tree
\* 1 o1 (2 o2 (3 o3 4)); 1 + 2 * 3 + 4 is 1 + ((2 * 3) + 4).
C27_ChainsNestToTheRight ==
    ParseDone =>
        /\ \A L \in ChainLevels : \A o1, o2 \in L :
               parser.source = Chain3(o1, o2) =>
                   /\ parser.result.ok
                   /\ parser.result.val =
                          <<ExpressionS(Node(One, o1, Node(Two, o2, Three)))>>
        /\ \A L \in ChainLevels : \A o1, o2, o3 \in L :
               parser.source = Chain4(o1, o2, o3) =>
                   /\ parser.result.ok
                   /\ parser.result.val =
                          <<ExpressionS(Node(One, o1,
                                Node(Two, o2, Node(Three, o3, Literal(Number(4))))))>>
        /\ parser.source = <<"1", "+", "2", "*", "3", "+", "4", ";">> =>
               parser.result.val =
                   <<ExpressionS(Binary(One, "Add",
                         Binary(Binary(Two, "Mult", Three), "Add", Literal(Number(4)))))>>

\* 1-2-3; has been parsed to the tree 1 - (2 - 3)
C27_Witness ==
    /\ ParseDone
    /\ parser.source = <<"1", "-", "2", "-", "3", ";">>
    /\ parser.result.ok
    /\ parser.result.val = <<ExpressionS(Binary(One, "Sub", Binary(Two, "Sub", Three)))>>

(***************************************************************************)
(* Resolver (analysis/resolver.rs).  A Resolver value is r = [scopes,      *)
(* locals, calls]: the stack of scopes (a sequence of maps from a name to  *)
(* its defined flag, the innermost scope last), the binding table the      *)
(* interpreter keeps, and a history of the calls of Interpreter::resolve   *)
(* in the order they were made (call k is reference site k of the text).   *)
(* A result is [ok, err, r].                                               *)
(***************************************************************************)
\* ParseError::SelfInitializedVar
SelfInitializedVar(name) == [kind |-> "SelfInitializedVar", name |-> name]

ROk(r) == [ok |-> TRUE, err |-> NoErr, r |-> r]
RErr(e, r) == [ok |-> FALSE, err |-> e, r |-> r]

\* Resolver::new
NewResolver == [scopes |-> << >>, locals |-> EmptyMap, calls |-> << >>]

\* Resolver::begin_scope
begin_scope(r) == [r EXCEPT !.scopes = Append(@, EmptyMap)]

\* Resolver::end_scope: Vec::pop, which does nothing on an empty stack
end_scope(r) ==
    IF r.scopes = << >> THEN r
    ELSE [r EXCEPT !.scopes = SubSeq(@, 1, Len(@) - 1)]

\* Resolver::declare: scopes.last_mut().map(insert(name, false))
declare(r, name) ==
    IF r.scopes = << >> THEN r
    ELSE [r EXCEPT !.scopes[Len(r.scopes)] = insert(@, name, FALSE)]

\* Resolver::define (the name `define` is Environment::define here)
resolver_define(r, name) ==
    IF r.scopes = << >> THEN r
    ELSE [r EXCEPT !.scopes[Len(r.scopes)] = insert(@, name, TRUE)]

\* Interpreter::resolve(name, idx): the entry of the binding table for the
\* key the resolver passes, which is the name
interpreter_resolve(r, name, idx) ==
    [r EXCEPT !.locals = insert(@, name, idx),
              !.calls = Append(@, [name |-> name, idx |-> idx,
                                   depth |-> Len(r.scopes),
                                   holders |-> {i \in 1..Len(r.scopes) :
                                                   name \in DOMAIN r.scopes[i]}])]

\* The 1-based position of the nearest scope holding the name, 0 when none:
\* `for (idx, scope) in self.scopes.iter().enumerate().rev()`
RECURSIVE NearestScope(_, _, _)
NearestScope(scopes, i, name) ==
    IF i = 0 THEN 0
    ELSE IF name \in DOMAIN scopes[i] THEN i
    ELSE NearestScope(scopes, i - 1, name)

\* Resolver::resolve_local; idx is the index of the scope in the Vec, counted
\* from the outermost scope (0)
resolve_local(r, name) ==
    IF r.scopes # << >>
       /\ name \in DOMAIN r.scopes[Len(r.scopes)]
       /\ r.scopes[Len(r.scopes)][name] = FALSE
    THEN RErr(SelfInitializedVar(name), r)
    ELSE With(NearestScope(r.scopes, Len(r.scopes), name), LAMBDA i :
             IF i = 0 THEN ROk(r) ELSE ROk(interpreter_resolve(r, name, i - 1)))

RECURSIVE resolve_expr(_, _), resolve_exprs(_, _, _), resolve_stmt(_, _),
          resolve_stmts(_, _, _), declare_params(_, _, _)

\* `for arg in args { self.resolve_expr(arg)?; }`
resolve_exprs(r, exprs, i) ==
    IF i > Len(exprs) THEN ROk(r)
    ELSE Try(resolve_expr(r, exprs[i]), LAMBDA a : resolve_exprs(a.r, exprs, i + 1))

\* Resolver::resolve_expr
resolve_expr(r, expr) ==
    CASE expr.k = "Unary" -> resolve_expr(r, expr.right)
      [] expr.k \in {"Binary", "Logical"} ->
            Try(resolve_expr(r, expr.left), LAMBDA l : resolve_expr(l.r, expr.right))
      [] expr.k = "Grouping" -> resolve_expr(r, expr.inner)
      [] expr.k = "Literal" -> ROk(r)
      [] expr.k = "Variable" -> resolve_local(r, expr.name)
      [] expr.k = "Assign" ->
            Try(resolve_expr(r, expr.expr), LAMBDA v : resolve_local(v.r, expr.name))
      [] expr.k = "Call" ->
            Try(resolve_expr(r, expr.callee), LAMBDA c : resolve_exprs(c.r, expr.args, 1))

\* `for body_stmt in body { self.resolve_stmt(body_stmt)?; }`
resolve_stmts(r, stmts, i) ==
    IF i > Len(stmts) THEN ROk(r)
    ELSE Try(resolve_stmt(r, stmts[i]), LAMBDA s : resolve_stmts(s.r, stmts, i + 1))

\* `for param in params { self.declare(param); self.define(param); }`
declare_params(r, params, i) ==
    IF i > Len(params) THEN r
    ELSE declare_params(resolver_define(declare(r, params[i]), params[i]), params, i + 1)

\* A variant of the Block arm that ends the scope before it passes an error on
block_scope_closing_on_error(r, stmts) ==
    With(resolve_stmts(begin_scope(r), stmts, 1), LAMBDA b :
        [b EXCEPT !.r = end_scope(b.r)])

\* The Block arm of resolve_stmt
block_scope(r, stmts) ==
    Try(resolve_stmts(begin_scope(r), stmts, 1), LAMBDA b : ROk(end_scope(b.r)))

\* The Function arm of resolve_stmt
function_scope(r, stmt) ==
    Try(resolve_stmts(declare_params(begin_scope(resolver_define(declare(r, stmt.name),
                                                                 stmt.name)),
                                     stmt.params, 1),
                      stmt.body, 1),
        LAMBDA b : ROk(end_scope(b.r)))

\* Resolver::resolve_stmt
resolve_stmt(r, stmt) ==
    CASE stmt.k \in {"Expression", "Print"} -> resolve_expr(r, stmt.e)
      [] stmt.k = "Return" ->
            IF stmt.e = NoExpr THEN ROk(r) ELSE resolve_expr(r, stmt.e)
      [] stmt.k = "If" ->
            Try(resolve_expr(r, stmt.condition), LAMBDA c :
                Try(resolve_stmt(c.r, stmt.then_branch), LAMBDA t :
                    IF stmt.else_branch = NoStmt THEN ROk(t.r)
                    ELSE resolve_stmt(t.r, stmt.else_branch)))
      [] stmt.k = "Var" ->
            IF stmt.initializer = NoExpr
            THEN ROk(resolver_define(declare(r, stmt.name), stmt.name))
            ELSE Try(resolve_expr(declare(r, stmt.name), stmt.initializer),
                     LAMBDA v : ROk(resolver_define(v.r, stmt.name)))
      [] stmt.k = "Function" -> function_scope(r, stmt)
      [] stmt.k = "Block" -> block_scope(r, stmt.statements)
      [] stmt.k = "While" ->
            Try(resolve_expr(r, stmt.condition), LAMBDA c : resolve_stmt(c.r, stmt.body))

(***************************************************************************)
(* SpecResolve: a Resolver on a new Interpreter, given the statements of a *)
(* program one resolve_stmt call after the other; the caller goes on with  *)
(* the next statement whatever the call returned.                          *)
(***************************************************************************)
VarA == VarS("a", NoExpr)
VarB == VarS("b", NoExpr)
\* var a = a;
VarSelf == VarS("a", Variable("a"))
\* var a = (a);  and  var b = b + 1;
VarSelfGrouped == VarS("a", Grouping(Variable("a")))
VarSelfInSum == VarS("b", Binary(Variable("b"), "Add", One))
RefA == ExpressionS(Variable("a"))
RefB == PrintS(Variable("b"))
SetA == ExpressionS(AssignE("a", One))

Declarations == {VarA, VarB, VarS("a", Variable("b"))}
References == {RefA, RefB, SetA}
SelfInits == {VarSelf, VarSelfGrouped, VarSelfInSum}
Leaves == Declarations \cup References \cup {VarSelf}

\* { l1 { l2 { l3 } } }
Nested3(l1, l2, l3) == BlockS(<<l1, BlockS(<<l2, BlockS(<<l3>>)>>)>>)
\* { l1 l2 { l3 l4 } }
Nested2(l1, l2, l3, l4) == BlockS(<<l1, l2, BlockS(<<l3, l4>>)>>)
\* fun f(a) { l1 l2 }
InFunction(l1, l2) == FunctionS("f", <<"a">>, <<l1, l2>>)
\* fun f() { { l1 } }
InFunctionBlock(l1) == FunctionS("f", << >>, <<BlockS(<<l1>>)>>)

ResolveStatements ==
    Leaves \cup SelfInits
        \cup {Nested3(l1, l2, l3) : l1 \in Leaves, l2 \in Leaves, l3 \in References}
        \cup {Nested2(l1, l2, l3, l4) : l1 \in Declarations, l2 \in References,
                                        l3 \in Leaves, l4 \in References}
        \cup {InFunction(l1, l2) : l1 \in Leaves, l2 \in Leaves}
        \cup {InFunctionBlock(l1) : l1 \in Leaves \cup SelfInits}
        \cup {BlockS(<<l1>>) : l1 \in SelfInits}
        \cup {IfS(Variable("a"), BlockS(<<VarSelf>>), NoStmt),
              WhileS(Variable("a"), BlockS(<<VarA, RefA>>)),
              ReturnS(NoExpr),
              PrintS(Call(Variable("f"), <<Variable("a")>>))}

\* The statements a second call of resolve_stmt is given
LaterStatements ==
    {VarSelf, RefA, BlockS(<<VarA, RefA>>), BlockS(<<VarSelf>>)}

\* What the first call is given when a second call follows
EarlierStatements ==
    {VarA, RefA, BlockS(<<VarSelf>>), BlockS(<<VarA, RefA>>),
     InFunctionBlock(VarSelf), InFunction(VarB, VarSelf),
     Nested3(VarA, RefA, RefA)}

ResolvePrograms ==
    {<<s>> : s \in ResolveStatements}
        \cup {<<s1, s2>> : s1 \in EarlierStatements, s2 \in LaterStatements}

ResolveInit ==
    /\ \E prog \in ResolvePrograms :
           resolver = [pc |-> "resolving", program |-> prog, idx |-> 1,
                       r |-> NewResolver, results |-> << >>]
    /\ env = ParkedEnv
    /\ lastOp = ParkedOp
    /\ lox = ParkedLox
    /\ sc = ParkedScanner
    /\ emitted = << >>
    /\ parser = ParkedParser
    /\ evaluation = ParkedEvaluation
    /\ session = ParkedSession

\* The Resolver after a call of resolve_stmt that returned res, and what the
\* call was given and returned
Resolved(rs, res) ==
    [rs EXCEPT !.idx = @ + 1, !.r = res.r,
               !.results = Append(@, [stmt |-> rs.program[rs.idx], ok |-> res.ok,
                                      err |-> res.err, before |-> rs.r, after |-> res.r])]

\* One call of resolve_stmt
ResolveStmt ==
    /\ resolver.pc = "resolving"
    /\ resolver.idx <= Len(resolver.program)
    /\ resolver' = Resolved(resolver, resolve_stmt(resolver.r, resolver.program[resolver.idx]))
    /\ UNCHANGED <<env, lastOp, lox, sc, emitted, parser, evaluation, session>>

\* No statement is left: the Resolver is dropped
ResolveEnd ==
    /\ resolver.pc = "resolving"
    /\ resolver.idx > Len(resolver.program)
    /\ resolver' = [resolver EXCEPT !.pc = "done"]
    /\ UNCHANGED <<env, lastOp, lox, sc, emitted, parser, evaluation, session>>

ResolveNext == ResolveStmt \/ ResolveEnd

SpecResolve == ResolveInit /\ [][ResolveNext]_vars

(***************************************************************************)
(* Properties of the Resolver (checked under SpecResolve)                  *)
(***************************************************************************)
Results == resolver.results
Calls == resolver.r.calls
Max(S) == CHOOSE x \in S : \A y \in S : y <= x

\* A declaration v alone at top level, in a block, in a block of a function
\* body, in the block of an if
Wrapped(v) ==
    {v, BlockS(<<v>>), InFunctionBlock(v), IfS(Variable("a"), BlockS(<<v>>), NoStmt)}

\* C21 as stated: resolve_stmt rejects a declaration whose initializer
\* refers to the variable being declared with SelfInitializedVar of its
\* name, at top level as well as inside a block or a function body.
C21_SelfInitRejectedEverywhere ==
    \A k \in 1..Len(Results) : \A v \in SelfInits :
        Results[k].stmt \in Wrapped(v) =>
            /\ ~Results[k].ok
            /\ Results[k].err = SelfInitializedVar(v.name)

\* The scopes that hold the name of call c, and the number of scopes between
\* the innermost scope and the nearest of them
Distance(c) == c.depth - Max(c.holders)

\* C22 as stated: the number recorded for a reference is the count of scopes
\* between the innermost scope and the nearest scope holding the name (0
\* when the innermost scope holds it); a name held by no scope is recorded
\* nowhere.
C22_RecordsDistanceFromInnermost ==
    /\ \A k \in 1..Len(Calls) :
           /\ Calls[k].holders # {}
           /\ Calls[k].idx = Distance(Calls[k])
    /\ \A n \in DOMAIN resolver.r.locals :
           \E k \in 1..Len(Calls) : Calls[k].name = n

\* The reference sites the resolver recorded, told apart by name and number
RecordedSites == {<<Calls[k].name, Calls[k].idx>> : k \in 1..Len(Calls)}

\* C23 as stated: the binding table keeps one entry per reference site: when
\* a name is referenced at two sites that resolve to different numbers the
\* table holds both numbers, so it has at least as many entries as there are
\* pairs of a name and a number recorded for it.
C23_OneEntryPerSite ==
    Cardinality(DOMAIN resolver.r.locals) >= Cardinality(RecordedSites)

\* The depth of the scope stack
StackDepth(r) == Len(r.scopes)

\* C29: a call of resolve_stmt that returns Ok leaves the scope stack at the
\* depth it had on entry; a call that returns an error from inside a block
\* or a function body leaves the scopes opened for them on the stack (one
\* for a block, two for a block of a function body), an error of a
\* declaration that is the statement itself leaves the depth as it was; and
\* the next call on the same Resolver starts from the stack the call before
\* left.
C29_ScopesBalancedOnlyOnSuccess ==
    /\ \A k \in 1..Len(Results) :
           LET res == Results[k]
               d0 == StackDepth(res.before)
               d1 == StackDepth(res.after)
           IN  /\ res.ok => d1 = d0
               /\ (~res.ok /\ res.stmt.k \in {"Block", "Function", "If"}) => d1 > d0
               /\ (~res.ok /\ res.stmt.k = "Var") => d1 = d0
               /\ \A v \in SelfInits \cup {VarSelf} :
                      /\ (~res.ok /\ res.stmt = BlockS(<<v>>)) => d1 = d0 + 1
                      /\ (~res.ok /\ res.stmt = InFunctionBlock(v)) => d1 = d0 + 2
               /\ k > 1 => res.before = Results[k - 1].after
    /\ resolver.r = IF Results = << >> THEN NewResolver ELSE Results[Len(Results)].after

\* { var a = a; } failed and left its scope; the next call, of a = 1 at top
\* level, started from a stack of depth 1
C29_Witness ==
    /\ Len(Results) = 2
    /\ Results[1].stmt = BlockS(<<VarSelf>>)
    /\ Results[1].err = SelfInitializedVar("a")
    /\ StackDepth(Results[1].before) = 0
    /\ StackDepth(Results[2].before) = 1
    /\ Results[2].stmt = RefA

(***************************************************************************)
(* SpecEval: Interpreter::expression on one expression, as the tests of    *)
(* interpreter.rs call it, in an interpreter whose top-level frame holds   *)
(* the operands l and r, a variable a and a function p that prints.        *)
(***************************************************************************)
\* fun p() { print 1; }
Printer == Function("p", << >>, <<PrintS(One)>>)

OperandValues ==
    {Nil, Bool(TRUE), Bool(FALSE), Number(0), Number(1), Number(2),
     Str(<< >>), Str(<<"a">>), Printer}

BinaryOps ==
    {"Equal", "NotEqual", "Mult", "Div", "Add", "Sub",
     "Greater", "GreaterEqual", "Less", "LessEqual"}

\* The interpreter after  var l = ..; var r = ..; var a = 1; fun p() { print 1; }
EvalInterpreter(l, r) ==
    [NewInterpreter EXCEPT
        !.env = bind_params(<<"l", "r", "a", "p">>, <<l, r, Number(1), Printer>>, 1, @)]

\* The left operands of a logical expression: a value, an assignment (an
\* effect before the right operand is looked at), an unbound name (an error)
LeftOperands ==
    {Variable("l"), AssignE("a", Variable("l")), Variable("u")}

\* The right operands: a value, an assignment, a read of a, an unbound name,
\* a type error unless l is a number, a call that prints
RightOperands ==
    {Variable("r"), AssignE("a", Two), Variable("a"), Variable("u"),
     Binary(Variable("l"), "Sub", One), Call(Variable("p"), << >>)}

BinaryExprs == {Binary(Variable("l"), op, Variable("r")) : op \in BinaryOps}
LogicalExprs ==
    {Logical(left, op, right) :
        left \in LeftOperands, op \in {"Or", "And"}, right \in RightOperands}

NoValue == [ok |-> FALSE, val |-> Nil, err |-> NoErr, st |-> NewInterpreter]

EvalInit ==
    /\ \/ \E e \in BinaryExprs, l \in OperandValues, r \in OperandValues :
              evaluation = [pc |-> "ready", expr |-> e, st |-> EvalInterpreter(l, r),
                            result |-> NoValue]
       \/ \E e \in LogicalExprs, l \in OperandValues :
              evaluation = [pc |-> "ready", expr |-> e, st |-> EvalInterpreter(l, Number(2)),
                            result |-> NoValue]
    /\ env = ParkedEnv
    /\ lastOp = ParkedOp
    /\ lox = ParkedLox
    /\ sc = ParkedScanner
    /\ emitted = << >>
    /\ parser = ParkedParser
    /\ resolver = ParkedResolver
    /\ session = ParkedSession

\* interp.expression(&ast)
Evaluate ==
    /\ evaluation.pc = "ready"
    /\ evaluation' = [evaluation EXCEPT
                         !.pc = "done",
                         !.result = expression(evaluation.expr, evaluation.st, MaxFuel)]
    /\ UNCHANGED <<env, lastOp, lox, sc, emitted, parser, resolver, session>>

EvalNext == Evaluate

SpecEval == EvalInit /\ [][EvalNext]_vars

(***************************************************************************)
(* Properties of Interpreter::expression (checked under SpecEval)          *)
(***************************************************************************)
EvalDone == evaluation.pc = "done"
\* The values of l and r in the interpreter the expression was given
LeftValue == get(evaluation.st.env, "l").val
RightValue == get(evaluation.st.env, "r").val
BothAre(t) == LeftValue.t = t /\ RightValue.t = t

\* C25: for every pair of operand values == and != never fail, and two
\* values of different types are unequal; + succeeds exactly on two numbers
\* or two strings; every other arithmetic or comparison operator succeeds
\* exactly on two numbers; every other combination fails with a type error,
\* and the evaluation changes nothing.
C25_BinaryOperandTypes ==
    (EvalDone /\ evaluation.expr \in BinaryExprs) =>
        LET op == evaluation.expr.bop
            res == evaluation.result
        IN  /\ op \in {"Equal", "NotEqual"} =>
                   /\ res.ok
                   /\ res.val.t = "Bool"
                   /\ LeftValue.t # RightValue.t => res.val = Bool(op = "NotEqual")
                   /\ LeftValue = RightValue => res.val = Bool(op = "Equal")
            /\ op = "Add" => (res.ok <=> (BothAre("Number") \/ BothAre("String")))
            /\ op \notin {"Equal", "NotEqual", "Add"} => (res.ok <=> BothAre("Number"))
            /\ (res.ok /\ op \in {"Greater", "GreaterEqual", "Less", "LessEqual"}) =>
                   res.val.t = "Bool"
            /\ (res.ok /\ op \in {"Mult", "Div", "Sub"}) => res.val.t = "Number"
            /\ (res.ok /\ op = "Add") => res.val.t = LeftValue.t
            /\ ~res.ok => res.err = type_error
            /\ res.st.env = evaluation.st.env

\* "a" + 2 has failed with a type error
C25_Witness ==
    /\ EvalDone
    /\ evaluation.expr = Binary(Variable("l"), "Add", Variable("r"))
    /\ LeftValue = Str(<<"a">>)
    /\ RightValue = Number(2)
    /\ evaluation.result.err = type_error

\* The values that are false in a condition: nil and false
Falsy(v) == v \in {Nil, Bool(FALSE)}
\* The left operand of the expression, evaluated alone in the interpreter
\* the expression was given
LeftAlone == expression(evaluation.expr.left, evaluation.st, MaxFuel)
\* The left value decides the result
Decides ==
    \/ evaluation.expr.lop = "Or" /\ ~Falsy(LeftAlone.val)
    \/ evaluation.expr.lop = "And" /\ Falsy(LeftAlone.val)

\* C24: a logical expression evaluates its left operand first; an error of
\* the left operand is the result; a truthy left value of or and a falsy
\* left value of and is the result, and the interpreter is then as the left
\* operand left it (the right operand was not evaluated: none of its
\* effects, outputs or errors); otherwise the result, value or error, and
\* the effects are those of the right operand evaluated after the left one.
\* The value is one of the operand values, not a boolean made of it.
C24_LogicalShortCircuit ==
    (EvalDone /\ evaluation.expr \in LogicalExprs) =>
        LET res == evaluation.result
        IN  IF ~LeftAlone.ok THEN res = LeftAlone
            ELSE IF Decides
            THEN /\ res.ok
                 /\ res.val = LeftAlone.val
                 /\ res.st = LeftAlone.st
            ELSE res = expression(evaluation.expr.right, LeftAlone.st, MaxFuel)

\* 0 or p() has given 0 and printed nothing
C24_Witness ==
    /\ EvalDone
    /\ evaluation.expr = Logical(Variable("l"), "Or", Call(Variable("p"), << >>))
    /\ LeftValue = Number(0)
    /\ evaluation.result.val = Number(0)
    /\ evaluation.result.st.out = << >>

(***************************************************************************)
(* Lox::run as one call (lib.rs), and its callers: the program of main.rs  *)
(* (SpecMain) and a host that keeps one Lox value and calls run on it      *)
(* again and again, whatever run returned (SpecRuns).  A source text is    *)
(* given by what Lox::parse makes of it.  Reading the file, reading a line *)
(* and writing the prompt are taken to succeed.                            *)
(***************************************************************************)
MaxLines == 2       \* lines of input of the interactive session of SpecMain
MaxRuns == 3        \* calls of run the host of SpecRuns makes

\* Interpreter::interpret: `for stmt in stmts { self.statement(stmt)?; }`,
\* from the statement i on
RECURSIVE interpret_from(_, _, _)
interpret_from(stmts, i, st) ==
    IF i > Len(stmts) THEN OkR(Unit, st)
    ELSE Try(statement(stmts[i], st, MaxFuel),
             LAMBDA r : interpret_from(stmts, i + 1, r.st))

interpret(stmts, st) == interpret_from(stmts, 1, st)

\* A variant of Lox::run that builds a new Interpreter for the statements
lox_run_on_new_interpreter(st, parsed) ==
    IF ~parsed.ok THEN [result |-> LoxError("Parse", parsed.err), st |-> st]
    ELSE With(interpret(parsed.val, NewInterpreter), LAMBDA r :
             [result |-> IF r.ok THEN RunOk ELSE LoxError("Runtime", r.err),
              st |-> r.st])

\* Lox::run on the interpreter st of the Lox value: the result and the
\* interpreter after the call
lox_run(st, parsed) ==
    IF ~parsed.ok THEN [result |-> LoxError("Parse", parsed.err), st |-> st]
    ELSE With(interpret(parsed.val, st), LAMBDA r :
             [result |-> IF r.ok THEN RunOk ELSE LoxError("Runtime", r.err),
              st |-> r.st])

\* The texts given to run
PrintA == PrintS(Variable("a"))
SessionPrograms ==
    {<<VarS("a", One)>>,
     <<VarS("a", One), PrintS(Variable("b"))>>,
     <<PrintA>>,
     <<ExpressionS(AssignE("a", Two))>>,
     <<BlockS(<<VarS("b", Two), PrintS(Variable("u"))>>)>>,
     <<BlockS(<<VarS("b", Two), BlockS(<<PrintS(Variable("u"))>>)>>)>>,
     <<IfStmt>>,
     <<LoopStmt>>}
SessionTexts ==
    {Err([kind |-> "UnexpectedEnd"])} \cup {Ok(prog) : prog \in SessionPrograms}

\* The record of one call of run
RunRecord(parsed, before, r) ==
    [parsed |-> parsed, result |-> r.result, before |-> before, after |-> r.st]

NewSession(mode, input) ==
    [mode |-> mode, pc |-> "start", input |-> input, next |-> 1,
     st |-> NewInterpreter, shown |-> << >>, runs |-> << >>, exit |-> NoResult]

\* The session after run returned r for the text `parsed`
Ran(s, parsed, r) ==
    [s EXCEPT !.runs = Append(@, RunRecord(parsed, s.st, r)), !.st = r.st]

\* Whether the evaluation ended within MaxFuel
Ended(r) == r.result.ok \/ r.result.err.error # Diverged

\* do_prompt: `print!("> ")`
do_prompt(s) == [s EXCEPT !.shown = Append(@, "> ")]

\* main: a script path was given or not; the file's contents or the lines
\* that will come on stdin
MainInit ==
    /\ \/ \E contents \in SessionTexts : session = NewSession("file", <<contents>>)
       \/ \E lines \in SeqsUpTo(SessionTexts, MaxLines) :
              session = NewSession("prompt", lines)
    /\ env = ParkedEnv
    /\ lastOp = ParkedOp
    /\ lox = ParkedLox
    /\ sc = ParkedScanner
    /\ emitted = << >>
    /\ parser = ParkedParser
    /\ resolver = ParkedResolver
    /\ evaluation = ParkedEvaluation

\* run_file: `runtime.run(&contents)?; Ok(())`
RunFile ==
    /\ session.mode = "file"
    /\ session.pc = "start"
    /\ With(lox_run(session.st, session.input[1]), LAMBDA r :
            /\ Ended(r)
            /\ session' = [Ran(session, session.input[1], r) EXCEPT
                              !.pc = "exited", !.next = 2, !.exit = r.result])
    /\ UNCHANGED <<env, lastOp, lox, sc, emitted, parser, resolver, evaluation>>

\* run_prompt up to the loop: `let mut runtime = Lox::new(); do_prompt()?;`
FirstPrompt ==
    /\ session.mode = "prompt"
    /\ session.pc = "start"
    /\ session' = [do_prompt(session) EXCEPT !.pc = "reading"]
    /\ UNCHANGED <<env, lastOp, lox, sc, emitted, parser, resolver, evaluation>>

\* A variant of the loop body that shows the error of run and goes on:
\* `if let Err(e) = runtime.run(&line) { eprintln!(..) }; do_prompt()?;`
run_line_reporting_error(s, line, r) ==
    [do_prompt(Ran(s, line, r)) EXCEPT !.next = @ + 1]

\* One iteration of `for line_res in lines`:
\* `runtime.run(&line)?; do_prompt()?;`
run_line(s, line, r) ==
    IF r.result.ok
    THEN [do_prompt(Ran(s, line, r)) EXCEPT !.next = @ + 1]
    ELSE [Ran(s, line, r) EXCEPT !.pc = "exited", !.next = @ + 1,
                                 !.exit = r.result]

RunLine ==
    /\ session.mode = "prompt"
    /\ session.pc = "reading"
    /\ session.next <= Len(session.input)
    /\ With(lox_run(session.st, session.input[session.next]), LAMBDA r :
            /\ Ended(r)
            /\ session' = run_line(session, session.input[session.next], r))
    /\ UNCHANGED <<env, lastOp, lox, sc, emitted, parser, resolver, evaluation>>

\* stdin is at its end: the loop is over, `Ok(())`
EndOfInput ==
    /\ session.mode = "prompt"
    /\ session.pc = "reading"
    /\ session.next > Len(session.input)
    /\ session' = [session EXCEPT !.pc = "exited", !.exit = RunOk]
    /\ UNCHANGED <<env, lastOp, lox, sc, emitted, parser, resolver, evaluation>>

MainNext == RunFile \/ FirstPrompt \/ RunLine \/ EndOfInput

SpecMain == MainInit /\ [][MainNext]_vars

\* A host program: `let mut runtime = Lox::new();`
HostInit ==
    /\ session = [NewSession("host", << >>) EXCEPT !.pc = "calling"]
    /\ env = ParkedEnv
    /\ lastOp = ParkedOp
    /\ lox = ParkedLox
    /\ sc = ParkedScanner
    /\ emitted = << >>
    /\ parser = ParkedParser
    /\ resolver = ParkedResolver
    /\ evaluation = ParkedEvaluation

\* `let _ = runtime.run(contents);`
HostRun ==
    /\ session.mode = "host"
    /\ Len(session.runs) < MaxRuns
    /\ \E parsed \in SessionTexts :
           With(lox_run(session.st, parsed), LAMBDA r :
               /\ Ended(r)
               /\ session' = Ran(session, parsed, r))
    /\ UNCHANGED <<env, lastOp, lox, sc, emitted, parser, resolver, evaluation>>

HostNext == HostRun

SpecRuns == HostInit /\ [][HostNext]_vars

(***************************************************************************)
(* Properties of the sessions                                              *)
(***************************************************************************)
Runs == session.runs
RunFailed(k) == ~Runs[k].result.ok
\* The names of the frame top-level statements define into
TopLevel(st) == DOMAIN st.env.frames[st.env.cur].values

\* C26: in interactive mode an error returned by run for one line does not
\* end the session: after it the prompt is printed again and the next line
\* is read and run, so the session ends only when every line was run; in
\* file mode the program ends with the result of the one run.
C26_ErrorDoesNotEndPrompt ==
    /\ session.mode = "prompt" =>
           /\ \A k \in 1..Len(Runs) : RunFailed(k) => Len(session.shown) > k
           /\ session.pc = "exited" => Len(Runs) = Len(session.input)
    /\ session.mode = "file" /\ session.pc = "exited" =>
           /\ Len(Runs) = 1
           /\ session.exit = Runs[1].result

\* C30: successive calls of run on one Lox value share one environment.
\* Every run starts where the run before it ended and at the depth the
\* first run started at; a name defined at top level stays defined through
\* every later run, also when the run that defined it or a later run fails;
\* a later run reads it and assigns to it.
C30_RunsShareOneEnvironment ==
    session.mode = "host" =>
        \A k \in 1..Len(Runs) :
            LET run == Runs[k]
            IN  /\ Depth(run.before.env) = Depth(NewInterpreter.env)
                /\ Depth(run.after.env) = Depth(NewInterpreter.env)
                /\ k > 1 => run.before = Runs[k - 1].after
                /\ TopLevel(run.before) \subseteq TopLevel(run.after)
                /\ run.parsed.ok /\ run.parsed.val[1] = VarS("a", One) =>
                       "a" \in TopLevel(run.after)
                /\ "a" \in TopLevel(run.before) /\ run.parsed = Ok(<<PrintA>>) =>
                       /\ run.result = RunOk
                       /\ run.after.out =
                              Append(run.before.out, get(run.before.env, "a").val)
                /\ "a" \in TopLevel(run.before)
                   /\ run.parsed = Ok(<<ExpressionS(AssignE("a", Two))>>) =>
                       /\ run.result = RunOk
                       /\ get(run.after.env, "a") = Ok(Number(2))

\* A run defined a and then failed with a runtime error; the next run
\* assigned to a and the third printed the assigned value
C30_Witness ==
    /\ session.mode = "host"
    /\ Len(Runs) = 3
    /\ Runs[1].parsed = Ok(<<VarS("a", One), PrintS(Variable("b"))>>)
    /\ Runs[1].result.err.stage = "Runtime"
    /\ Runs[2].parsed = Ok(<<ExpressionS(AssignE("a", Two))>>)
    /\ Runs[3].parsed = Ok(<<PrintA>>)
    /\ Runs[3].result = RunOk
    /\ Runs[3].after.out = <<Number(2)>>
    /\ Depth(Runs[3].before.env) = Depth(Runs[1].before.env)

====
